---- MODULE Spec2Model ----
(***************************************************************************)
(* Model of the local authentication core of ulink-mcp-server:             *)
(*   - browserOAuthFlow, the loopback callback server (auth/oauth.ts)      *)
(*   - enforceRateLimit / apiRequest, the request client                   *)
(*     (client/ulink-api.ts)                                               *)
(*   - loadTokensFromDisk / saveTokensToDisk, the encrypted token store    *)
(*     (auth/token-store.ts)                                               *)
(* Times are epoch milliseconds, as Date.now() returns them.               *)
(***************************************************************************)
EXTENDS Integers, Sequences, FiniteSets, TLC

VARIABLES
    now,               \* Date.now()
    \* ---- browserOAuthFlow (one Promise executor's closure) ----
    server,            \* "none" | "binding" | "listening" | "unbound" | "closed"
    sessionId,         \* const sessionId = randomUUID()
    settled,           \* let settled = false
    callbackAttempts,  \* let callbackAttempts = 0
    outcome,           \* state of the returned Promise
    timer,             \* "unset" | "armed" | "fired"
    flowStart,         \* Date.now() when the timer was armed
    browserOpened,     \* openBrowser(authUrl) was called
    req,               \* the request the handler ran on last
    resp,              \* the response the handler wrote last
    mismatches,        \* /callback requests answered 400 so far
    afterSettle,       \* the handler or the timer ran on a settled Promise
    \* ---- request client (module state of ulink-api.ts) ----
    requestTimestamps, \* const requestTimestamps: number[] = []
    oauthTokens,       \* let oauthTokens: OAuthTokens | undefined
    apiKey,            \* what getApiKey() returns (ULINK_API_KEY)
    disk,              \* the file ~/.ulink/config.json
    lastCall,          \* the last direct call of the token store
    \* ---- apiRequest calls, one entry per call in progress ----
    pc,                \* where each call is suspended
    authHeader,        \* the header ensureAuth returned to the call
    httpRes,           \* const res = await fetch(...)
    trace,             \* the outside calls the call has made, in order
    result             \* what the call returned or threw

flowVars == <<server, sessionId, settled, callbackAttempts, outcome, timer,
              flowStart, browserOpened, req, resp, mismatches, afterSettle>>

clientVars == <<requestTimestamps, oauthTokens, apiKey, disk, lastCall, pc,
                authHeader, httpRes, trace, result>>

vars == <<now, flowVars, clientVars>>

-----------------------------------------------------------------------------
(* Bounds of the model *)

\* the clock stops advancing by ticks once it has reached MaxClock
MaxClock == 15000
\* /callback requests one flow receives
MaxCallbacks == 7
\* calls of apiRequest admitted within one window, where the window's limit
\* is not the subject
MaxRequests == 3
\* the steps by which the clock advances
TickSteps == {5000}

-----------------------------------------------------------------------------
(* JavaScript values *)

\* URLSearchParams.get() returns null for an absent parameter
NULL == "<null>"
\* an absent parameter whose value is modelled as a sequence of characters
NULLSEQ == <<"<null>">>

\* JavaScript truthiness of a string-or-null
Truthy(s) == s # NULL /\ s # ""
TruthySeq(q) == q # NULLSEQ /\ q # <<>>

\* a JavaScript number: NaN, or an integer
NaN == [nan |-> TRUE, v |-> 0]
Num(n) == [nan |-> FALSE, v |-> n]
JsAdd(a, b) == IF a.nan \/ b.nan THEN NaN ELSE Num(a.v + b.v)
JsMul(a, b) == IF a.nan \/ b.nan THEN NaN ELSE Num(a.v * b.v)

Digits == <<"0", "1", "2", "3", "4", "5", "6", "7", "8", "9">>
IsDigit(c) == \E i \in 1..10 : Digits[i] = c
DigitValue(c) == (CHOOSE i \in 1..10 : Digits[i] = c) - 1
IsSpace(c) == c = " "

RECURSIVE SkipSpaces(_)
SkipSpaces(q) ==
    IF q # <<>> /\ IsSpace(Head(q)) THEN SkipSpaces(Tail(q)) ELSE q

\* value of the longest prefix of decimal digits of q, read after acc;
\* seen says whether a digit has been read
RECURSIVE DigitPrefix(_, _, _)
DigitPrefix(q, acc, seen) ==
    IF q # <<>> /\ IsDigit(Head(q))
    THEN DigitPrefix(Tail(q), acc * 10 + DigitValue(Head(q)), TRUE)
    ELSE IF seen THEN Num(acc) ELSE NaN

\* parseInt(q, 10): leading white space, an optional sign, then the longest
\* prefix of digits; NaN when there is no digit
ParseInt10(q) ==
    LET s == SkipSpaces(q)
        neg == s # <<>> /\ Head(s) = "-"
        body == IF s # <<>> /\ Head(s) \in {"-", "+"} THEN Tail(s) ELSE s
        n == DigitPrefix(body, 0, FALSE)
    IN  IF n.nan THEN NaN ELSE IF neg THEN Num(0 - n.v) ELSE n

-----------------------------------------------------------------------------
(* browserOAuthFlow *)

TIMEOUT_MS == 300000
MAX_CALLBACK_ATTEMPTS == 5

TheSession == "sess-1"

Pending == [kind |-> "pending"]
Resolved(tokens) == [kind |-> "resolved", tokens |-> tokens]
Rejected(err) == [kind |-> "rejected", error |-> err]

OAuthError(code, desc) == [msg |-> "OAuth error", code |-> code, desc |-> desc]
MissingParamsError == [msg |-> "Missing token parameters in callback"]
TimeoutError == [msg |-> "OAuth flow timed out after 5 minutes"]
BindError == [msg |-> "Failed to bind local server"]

\* nothing written to the response (none yet, or the handler threw first)
NoResponse == [status |-> 0, page |-> "none", message |-> ""]
Response(status, page, message) ==
    [status |-> status, page |-> page, message |-> message]

\* Settle with every call deciding anew
SettleAlways(o, new) == new

\* resolve()/reject() of a Promise: the first call decides, later calls are
\* ignored
Settle(o, new) == IF o.kind = "pending" THEN new ELSE o

\* requests the loopback server can receive: the query strings below, each
\* under every session value
Sessions == {NULL, TheSession, "sess-evil"}

NoRequest ==
    [path |-> NULL, session |-> NULL, error |-> NULL,
     error_description |-> NULL, access_token |-> NULL,
     refresh_token |-> NULL, expires_in |-> NULLSEQ]

Query(err, desc, at, rt, ei) ==
    [NoRequest EXCEPT !.path = "/callback", !.error = err,
                      !.error_description = desc, !.access_token = at,
                      !.refresh_token = rt, !.expires_in = ei]

Queries ==
    { Query(NULL, NULL, "at-1", "rt-1", <<"3", "6", "0", "0">>),
      Query(NULL, NULL, "at-1", "rt-1", <<"a", "b", "c">>),
      Query(NULL, NULL, "at-1", "rt-1", <<"1", ".", "5">>),
      Query(NULL, NULL, "at-1", "rt-1", <<"0">>),
      Query("access_denied", NULL, NULL, NULL, NULLSEQ),
      Query("access_denied", "denied by user", "at-1", "rt-1", <<"6", "0">>),
      Query("", NULL, "at-1", "rt-1", <<"6", "0">>),
      Query(NULL, NULL, NULL, "rt-1", <<"6", "0">>),
      Query(NULL, NULL, "", "rt-1", <<"6", "0">>),
      Query(NULL, NULL, "at-1", NULL, <<"6", "0">>),
      Query(NULL, NULL, "at-1", "rt-1", NULLSEQ),
      Query(NULL, NULL, "at-1", "rt-1", <<>>),
      Query(NULL, NULL, NULL, NULL, NULLSEQ) }

\* the callbacks that end the flows the request client starts
ClientQueries ==
    { Query(NULL, NULL, "at-1", "rt-1", <<"3", "6", "0", "0">>),
      Query(NULL, NULL, "at-1", "rt-1", <<"a", "b", "c">>),
      Query(NULL, NULL, "at-1", "rt-1", <<"0">>),
      Query("access_denied", NULL, NULL, NULL, NULLSEQ) }

CallbackRequests ==
    {[q EXCEPT !.session = s] : q \in Queries, s \in Sessions}

OtherRequests ==
    {[NoRequest EXCEPT !.path = p] : p \in {NULL, "/", "/favicon.ico", "//"}}

Requests == CallbackRequests \cup OtherRequests

\* OverLimit with the limit one too high
OverLimitOffByOne(n) == n > MAX_CALLBACK_ATTEMPTS + 1

\* callbackAttempts > MAX_CALLBACK_ATTEMPTS
OverLimit(n) == n > MAX_CALLBACK_ATTEMPTS

\* SessionMismatch with the comparison left out
SessionMismatchNever(r) == FALSE

\* returnedSession !== sessionId
SessionMismatch(r) == r.session # sessionId

\* if (error)
HasError(r) == Truthy(r.error)

\* parsed.searchParams.get("error_description") ?? "Unknown error"
ErrorDescription(r) ==
    IF r.error_description = NULL THEN "Unknown error"
    ELSE r.error_description

\* !accessToken || !refreshToken || !expiresIn
MissingTokens(r) ==
    \/ ~Truthy(r.access_token)
    \/ ~Truthy(r.refresh_token)
    \/ ~TruthySeq(r.expires_in)

\* the OAuthTokens the success branch builds at time t
CallbackTokens(r, t) ==
    [accessToken |-> r.access_token,
     refreshToken |-> r.refresh_token,
     expiresAt |-> JsAdd(Num(t), JsMul(ParseInt10(r.expires_in), Num(1000)))]

\* CallbackOutcome with the token parameters checked before the error
CallbackOutcomeMissingFirst(r, t) ==
    IF MissingTokens(r)
    THEN Rejected(MissingParamsError)
    ELSE IF HasError(r)
    THEN Rejected(OAuthError(r.error, ErrorDescription(r)))
    ELSE Resolved(CallbackTokens(r, t))

\* what a /callback request that passed the attempt limit and the session
\* check settles the flow with, at time t: the error branch, the
\* missing-parameter branch, the success branch, in this order
CallbackOutcome(r, t) ==
    IF HasError(r)
    THEN Rejected(OAuthError(r.error, ErrorDescription(r)))
    ELSE IF MissingTokens(r)
    THEN Rejected(MissingParamsError)
    ELSE Resolved(CallbackTokens(r, t))

\* the page such a request is answered with
CallbackResponse(r) ==
    IF HasError(r)
    THEN Response(200, "error", ErrorDescription(r))
    ELSE IF MissingTokens(r)
    THEN Response(200, "error", "Missing token parameters in callback")
    ELSE Response(200, "success", "")

\* the Promise executor: session id, server, listen(), setTimeout()
StartFlow ==
    /\ server = "none"
    /\ server' = "binding"
    /\ sessionId' = TheSession
    /\ settled' = FALSE
    /\ callbackAttempts' = 0
    /\ outcome' = Pending
    /\ timer' = "armed"
    /\ flowStart' = now
    /\ UNCHANGED <<now, browserOpened, req, resp, mismatches, afterSettle>>
    /\ UNCHANGED clientVars

\* the callback of server.listen(0, "127.0.0.1", ...).  server.address() is
\* an object with the port, or null for a server that holds no handle:
\* nothing is bound then (a string is the address of a pipe, which
\* listen(0, "127.0.0.1") never makes)
ListenCallback(addrOk) ==
    /\ server = "binding"
    /\ server' = IF addrOk THEN "listening" ELSE "unbound"
    /\ IF addrOk
       THEN /\ browserOpened' = TRUE
            /\ outcome' = outcome
       ELSE /\ browserOpened' = browserOpened
            /\ outcome' = Settle(outcome, Rejected(BindError))
    /\ UNCHANGED <<now, sessionId, settled, callbackAttempts, timer,
                   flowStart, req, resp, mismatches, afterSettle>>
    /\ UNCHANGED clientVars

\* listen() fails (EADDRNOTAVAIL, EACCES, EMFILE): the server emits 'error'
\* and never 'listening', so the callback of listen() is not called.  The
\* flow registers no 'error' listener: nothing rejects the Promise and the
\* event is thrown as an uncaught exception.
ListenError ==
    /\ server = "binding"
    /\ server' = "unbound"
    /\ UNCHANGED <<now, sessionId, settled, callbackAttempts, outcome, timer,
                   flowStart, browserOpened, req, resp, mismatches, afterSettle>>
    /\ UNCHANGED clientVars

\* new URL(req.url, "http://127.0.0.1") throws a TypeError on a request
\* target it cannot parse; "//" is one: an authority with no host
UrlParses(target) == target # "//"

\* the request handler given to createServer.  After server.close() the
\* server accepts no new connection, but a connection made before it stays
\* open and can still deliver requests to the handler.
HandleRequest(r) ==
    /\ server \in {"listening", "closed"}
    /\ req' = r
    /\ afterSettle' = (afterSettle \/ (r.path = "/callback" /\ outcome.kind # "pending"))
    /\ IF r.path = NULL
       THEN /\ resp' = Response(400, "none", "")
            /\ UNCHANGED <<server, settled, callbackAttempts, outcome,
                           mismatches>>
       ELSE IF ~UrlParses(r.path)
       THEN /\ resp' = NoResponse
            /\ UNCHANGED <<server, settled, callbackAttempts, outcome,
                           mismatches>>
       ELSE IF r.path # "/callback"
       THEN /\ resp' = Response(404, "text", "Not found")
            /\ UNCHANGED <<server, settled, callbackAttempts, outcome,
                           mismatches>>
       ELSE /\ callbackAttempts < MaxCallbacks
            /\ callbackAttempts' = callbackAttempts + 1
            /\ IF OverLimit(callbackAttempts + 1)
               THEN /\ resp' = Response(429, "error", "Too many callback attempts")
                    /\ UNCHANGED <<server, settled, outcome, mismatches>>
               ELSE IF SessionMismatch(r)
               THEN /\ resp' = Response(400, "error",
                                  "Invalid session - possible CSRF attempt")
                    /\ mismatches' = mismatches + 1
                    /\ UNCHANGED <<server, settled, outcome>>
               ELSE /\ resp' = CallbackResponse(r)
                    /\ settled' = TRUE
                    /\ server' = "closed"
                    /\ outcome' = Settle(outcome, CallbackOutcome(r, now))
                    /\ UNCHANGED mismatches
    /\ UNCHANGED <<now, sessionId, timer, flowStart, browserOpened>>
    /\ UNCHANGED clientVars

\* TimerFire without its reject(): the timeout closes the listener only
TimerFireNoReject ==
    /\ timer = "armed"
    /\ server \in {"listening", "unbound", "closed"}
    /\ timer' = "fired"
    /\ now' = IF now < flowStart + TIMEOUT_MS THEN flowStart + TIMEOUT_MS ELSE now
    /\ afterSettle' = (afterSettle \/ outcome.kind # "pending")
    /\ IF ~settled
       THEN /\ settled' = TRUE
            /\ server' = IF server = "unbound" THEN "unbound" ELSE "closed"
            /\ outcome' = outcome
       ELSE UNCHANGED <<settled, server, outcome>>
    /\ UNCHANGED <<sessionId, callbackAttempts, flowStart, browserOpened,
                   req, resp, mismatches>>
    /\ UNCHANGED clientVars

\* TimerFire without its server.close()
TimerFireNoClose ==
    /\ timer = "armed"
    /\ server \in {"listening", "unbound", "closed"}
    /\ timer' = "fired"
    /\ now' = IF now < flowStart + TIMEOUT_MS THEN flowStart + TIMEOUT_MS ELSE now
    /\ afterSettle' = (afterSettle \/ outcome.kind # "pending")
    /\ IF ~settled
       THEN /\ settled' = TRUE
            /\ server' = server
            /\ outcome' = Settle(outcome, Rejected(TimeoutError))
       ELSE UNCHANGED <<settled, server, outcome>>
    /\ UNCHANGED <<sessionId, callbackAttempts, flowStart, browserOpened,
                   req, resp, mismatches>>
    /\ UNCHANGED clientVars

\* the setTimeout callback: it runs TIMEOUT_MS after the executor
TimerFire ==
    /\ timer = "armed"
    /\ server \in {"listening", "unbound", "closed"}
    /\ timer' = "fired"
    /\ now' = IF now < flowStart + TIMEOUT_MS THEN flowStart + TIMEOUT_MS ELSE now
    /\ afterSettle' = (afterSettle \/ outcome.kind # "pending")
    /\ IF ~settled
       THEN /\ settled' = TRUE
            /\ server' = IF server = "unbound" THEN "unbound" ELSE "closed"
            /\ outcome' = Settle(outcome, Rejected(TimeoutError))
       ELSE UNCHANGED <<settled, server, outcome>>
    /\ UNCHANGED <<sessionId, callbackAttempts, flowStart, browserOpened,
                   req, resp, mismatches>>
    /\ UNCHANGED clientVars

\* time passes; while the timer is armed it fires before its deadline passes
Tick(d) ==
    /\ now + d <= MaxClock
    /\ timer = "armed" => now + d < flowStart + TIMEOUT_MS
    /\ now' = now + d
    /\ UNCHANGED <<flowVars, clientVars>>

-----------------------------------------------------------------------------
(* Request client: enforceRateLimit, ensureAuth, apiRequest *)

TOKEN_REFRESH_BUFFER_MS == 30000
RATE_LIMIT_MAX == 30
RATE_LIMIT_WINDOW_MS == 10000

Calls == {1, 2}

\* oauthTokens === undefined
NoTokens == [kind |-> "undefined"]

ApiError(status, message) ==
    [name |-> "ApiError", status |-> status, message |-> message]
ClientRateLimitMessage == "Client rate limit reached"

NoResult == [kind |-> "none"]
Returned(v) == [kind |-> "returned", value |-> v]
Threw(e) == [kind |-> "threw", error |-> e]

\* while (length > 0 && requestTimestamps[0] <= now - WINDOW) shift()
RECURSIVE Prune(_, _)
Prune(ts, t) ==
    IF Len(ts) > 0 /\ ts[1] <= t - RATE_LIMIT_WINDOW_MS
    THEN Prune(Tail(ts), t)
    ELSE ts

\* EnforceRateLimit without the pruning loop
EnforceRateLimitNoPrune(ts, t) ==
    IF Len(ts) >= RATE_LIMIT_MAX
    THEN [throws |-> TRUE, ts |-> ts]
    ELSE [throws |-> FALSE, ts |-> Append(ts, t)]

\* EnforceRateLimit recording the timestamp before the check
EnforceRateLimitPushFirst(ts, t) ==
    LET pushed == Append(Prune(ts, t), t)
    IN  [throws |-> Len(pushed) > RATE_LIMIT_MAX, ts |-> pushed]

\* EnforceRateLimit admitting one call more: > for >=
EnforceRateLimitOffByOne(ts, t) ==
    LET pruned == Prune(ts, t)
    IN  IF Len(pruned) > RATE_LIMIT_MAX
        THEN [throws |-> TRUE, ts |-> pruned]
        ELSE [throws |-> FALSE, ts |-> Append(pruned, t)]

\* enforceRateLimit() at time t on the window ts: whether it throws, and
\* the window it leaves
EnforceRateLimit(ts, t) ==
    LET pruned == Prune(ts, t)
    IN  IF Len(pruned) >= RATE_LIMIT_MAX
        THEN [throws |-> TRUE, ts |-> pruned]
        ELSE [throws |-> FALSE, ts |-> Append(pruned, t)]

\* NeedsRefresh for tokens already expired only
NeedsRefreshExpiredOnly(tok, t) ==
    /\ ~tok.expiresAt.nan
    /\ tok.expiresAt.v - t < 0

\* oauthTokens.expiresAt - Date.now() < TOKEN_REFRESH_BUFFER_MS
NeedsRefresh(tok, t) ==
    /\ ~tok.expiresAt.nan
    /\ tok.expiresAt.v - t < TOKEN_REFRESH_BUFFER_MS

-----------------------------------------------------------------------------
(* Token store: ~/.ulink/config.json, encrypt / decrypt, load and save *)

\* a field an object does not have
Absent == [kind |-> "absent"]

\* deriveKey(): the key of this machine, user and home directory, and the
\* key of another machine
MachineKey == "key-here"
OtherKey == "key-other"
\* randomBytes(16)
IVs == {"iv-1", "iv-2"}

\* new Date(ms).toISOString(), for a number that is a time; a string that is
\* no date
ToISOString(n) == [kind |-> "string", iso |-> TRUE, ms |-> n.v]
InvalidDate == [kind |-> "string", iso |-> FALSE, ms |-> 0]
\* new Date(s).getTime()
DateGetTime(s) == IF s.kind = "string" /\ s.iso THEN Num(s.ms) ELSE NaN

\* texts: JSON.stringify(v), and a text JSON.parse throws on
JsonStringify(v) == [kind |-> "text", json |-> TRUE, value |-> v]
NotJson == [kind |-> "text", json |-> FALSE]
JsonParse(s) ==
    IF s.json THEN [ok |-> TRUE, value |-> s.value] ELSE [ok |-> FALSE]

\* JSON values that are no plain object: null (and the primitives, on which
\* setting a property throws as well), and an array
JsonNull == [kind |-> "null"]
JsonArray == [kind |-> "array"]

\* interface CliAuthSection
CliAuthSection(type, token, refreshToken, expiresAt) ==
    [kind |-> "object", type |-> type, token |-> token,
     refreshToken |-> refreshToken, expiresAt |-> expiresAt]

\* encrypt(plaintext): base64(iv):base64(tag):base64(ciphertext), with the
\* AES-256-GCM ciphertext and tag as terms over the key, the iv and the text
Encrypt(plaintext, key, iv) ==
    [kind |-> "string",
     parts |-> << [part |-> "iv", iv |-> iv],
                  [part |-> "tag", key |-> key, iv |-> iv, text |-> plaintext],
                  [part |-> "data", key |-> key, text |-> plaintext] >>]

\* Decrypt without setAuthTag / final(): the data deciphered, tag or no tag
DecryptNoTagCheck(encoded, key) ==
    IF Len(encoded.parts) # 3 THEN [ok |-> FALSE]
    ELSE LET data == encoded.parts[3]
         IN  IF data.part = "data" /\ data.key = key
             THEN [ok |-> TRUE, text |-> data.text]
             ELSE [ok |-> FALSE]

\* decrypt(encoded) with the key: the plaintext, or a throw for a string
\* not of three parts or failing the tag check
Decrypt(encoded, key) ==
    IF Len(encoded.parts) # 3 THEN [ok |-> FALSE]
    ELSE LET iv == encoded.parts[1]
             tag == encoded.parts[2]
             data == encoded.parts[3]
         IN  IF /\ iv.part = "iv" /\ tag.part = "tag" /\ data.part = "data"
                /\ data.key = key
                /\ tag = [part |-> "tag", key |-> key, iv |-> iv.iv,
                          text |-> data.text]
             THEN [ok |-> TRUE, text |-> data.text]
             ELSE [ok |-> FALSE]

\* the config object: the two authentication fields and the other fields
Config(auth, enc, other) ==
    [kind |-> "object", auth |-> auth, auth_encrypted |-> enc, other |-> other]
EmptyConfig == Config(Absent, Absent, Absent)

\* the file at CONFIG_PATH: missing, or its text and permission bits
NoFile == [kind |-> "missing"]
\* a file readFileSync fails on (EACCES, EISDIR)
Unreadable == [kind |-> "unreadable"]
File(text, mode) == [kind |-> "file", text |-> text, mode |-> mode]

\* JSON.parse(readFileSync(CONFIG_PATH, "utf-8"))
ReadConfig(d) == IF d.kind # "file" THEN [ok |-> FALSE] ELSE JsonParse(d.text)

\* the points at which the file system can fail a save
SaveOutcomes == {"ok", "mkdir", "write", "chmod"}

\* mkdirSync; writeFileSync; chmodSync(0o600), failing at io: the file left
\* behind, and whether an exception was thrown
WriteConfig(d, config, io) ==
    IF io \in {"mkdir", "write"} THEN [disk |-> d, error |-> TRUE]
    ELSE IF io = "chmod"
    THEN [disk |-> File(JsonStringify(config),
                        IF d.kind = "file" THEN d.mode ELSE "0644"),
          error |-> TRUE]
    ELSE [disk |-> File(JsonStringify(config), "0600"), error |-> FALSE]

\* SaveTokensToDisk starting from an empty object whatever the file holds
SaveTokensToDiskFresh(d, tok, iv, io) ==
    LET w == IF tok.expiresAt.nan
             THEN [disk |-> d, error |-> TRUE]
             ELSE WriteConfig(d,
                      [EmptyConfig EXCEPT !.auth_encrypted =
                           Encrypt(JsonStringify(CliAuthSection("jwt",
                               tok.accessToken, tok.refreshToken,
                               ToISOString(tok.expiresAt))), MachineKey, iv)],
                      io)
    IN  [disk |-> w.disk, error |-> w.error, raised |-> FALSE]

\* SaveTokensToDisk without its try / catch: what is thrown reaches the caller
SaveTokensToDiskNoCatch(d, tok, iv, io) ==
    LET cfg == ReadConfig(d)
        config == IF cfg.ok THEN cfg.value ELSE EmptyConfig
        w == IF tok.expiresAt.nan \/ config.kind = "null"
             THEN [disk |-> d, error |-> TRUE]
             ELSE IF config.kind = "array" THEN WriteConfig(d, config, io)
             ELSE WriteConfig(d,
                      [config EXCEPT !.auth_encrypted =
                           Encrypt(JsonStringify(CliAuthSection("jwt",
                               tok.accessToken, tok.refreshToken,
                               ToISOString(tok.expiresAt))), MachineKey, iv),
                       !.auth = Absent],
                      io)
    IN  [disk |-> w.disk, error |-> FALSE, raised |-> w.error]

\* saveTokensToDisk(tok) on the file d, with iv drawn and the file system
\* failing at io: the file it leaves, whether it caught (and logged) an
\* exception, and whether it raised one to its caller (the catch rethrows
\* nothing).  new Date(NaN).toISOString() throws; setting a property on
\* null throws; a property set on an array is dropped by JSON.stringify.
SaveTokensToDisk(d, tok, iv, io) ==
    LET cfg == ReadConfig(d)
        config == IF cfg.ok THEN cfg.value ELSE EmptyConfig
        w == IF tok.expiresAt.nan \/ config.kind = "null"
             THEN [disk |-> d, error |-> TRUE]
             ELSE IF config.kind = "array" THEN WriteConfig(d, config, io)
             ELSE WriteConfig(d,
                      [config EXCEPT !.auth_encrypted =
                           Encrypt(JsonStringify(CliAuthSection("jwt",
                               tok.accessToken, tok.refreshToken,
                               ToISOString(tok.expiresAt))), MachineKey, iv),
                       !.auth = Absent],
                      io)
    IN  [disk |-> w.disk, error |-> w.error, raised |-> FALSE]

\* Unexpired accepting an expiry equal to the current time
UnexpiredAtNow(auth, t) ==
    LET expiresAt == DateGetTime(auth.expiresAt)
    IN  IF expiresAt.nan \/ expiresAt.v < t THEN NoTokens
        ELSE [accessToken |-> auth.token, refreshToken |-> auth.refreshToken,
              expiresAt |-> expiresAt]

\* the triple of an authentication section, when its expiry is a time after
\* t; undefined otherwise
Unexpired(auth, t) ==
    LET expiresAt == DateGetTime(auth.expiresAt)
    IN  IF expiresAt.nan \/ expiresAt.v <= t THEN NoTokens
        ELSE [accessToken |-> auth.token, refreshToken |-> auth.refreshToken,
              expiresAt |-> expiresAt]

\* the encrypted branch of loadTokensFromDisk: the decrypted and parsed
\* section, or a throw
DecryptedAuth(config) ==
    IF config.auth_encrypted.kind # "string" THEN [ok |-> FALSE]
    ELSE LET dec == Decrypt(config.auth_encrypted, MachineKey)
         IN  IF ~dec.ok THEN [ok |-> FALSE]
             ELSE LET auth == JsonParse(dec.text)
                  IN  IF auth.ok /\ auth.value.kind = "object" THEN auth
                      ELSE [ok |-> FALSE]

\* what a call of loadTokensFromDisk gives: the value returned, the file
\* left, whether the migrating save logged an error, and whether the call
\* raised an exception to its caller
Loaded(tokens, d, error) ==
    [tokens |-> tokens, disk |-> d, error |-> error, raised |-> FALSE]
Raised(d) ==
    [tokens |-> NoTokens, disk |-> d, error |-> FALSE, raised |-> TRUE]

\* LoadTokensFromDisk without the migrating save
LoadTokensFromDiskNoMigrate(d, t, iv, io) ==
    LET cfg == ReadConfig(d)
    IN  IF ~cfg.ok \/ cfg.value.kind # "object"
        THEN Loaded(NoTokens, d, FALSE)
        ELSE LET config == cfg.value
                 enc == DecryptedAuth(config)
                 auth == config.auth
             IN  IF enc.ok
                 THEN Loaded(Unexpired(enc.value, t), d, FALSE)
                 ELSE IF \/ auth = Absent
                         \/ auth.type # "jwt"
                         \/ ~Truthy(auth.token)
                         \/ ~Truthy(auth.refreshToken)
                         \/ Unexpired(auth, t) = NoTokens
                 THEN Loaded(NoTokens, d, FALSE)
                 ELSE Loaded(Unexpired(auth, t), d, FALSE)

\* LoadTokensFromDisk without the outer try / catch
LoadTokensFromDiskNoCatch(d, t, iv, io) ==
    LET cfg == ReadConfig(d)
    IN  IF ~cfg.ok \/ cfg.value.kind = "null" THEN Raised(d)
        ELSE IF cfg.value.kind # "object" THEN Loaded(NoTokens, d, FALSE)
        ELSE LET config == cfg.value
                 enc == DecryptedAuth(config)
                 auth == config.auth
             IN  IF enc.ok
                 THEN Loaded(Unexpired(enc.value, t), d, FALSE)
                 ELSE IF \/ auth = Absent
                         \/ auth.type # "jwt"
                         \/ ~Truthy(auth.token)
                         \/ ~Truthy(auth.refreshToken)
                         \/ Unexpired(auth, t) = NoTokens
                 THEN Loaded(NoTokens, d, FALSE)
                 ELSE LET saved == SaveTokensToDisk(d, Unexpired(auth, t),
                                                    iv, io)
                      IN  Loaded(Unexpired(auth, t), saved.disk, saved.error)

\* LoadTokensFromDisk going on to the legacy section when the decrypted
\* record yields no triple
LoadTokensFromDiskLegacyOnExpired(d, t, iv, io) ==
    LET cfg == ReadConfig(d)
    IN  IF ~cfg.ok \/ cfg.value.kind # "object"
        THEN Loaded(NoTokens, d, FALSE)
        ELSE LET config == cfg.value
                 enc == DecryptedAuth(config)
                 auth == config.auth
             IN  IF enc.ok /\ Unexpired(enc.value, t) # NoTokens
                 THEN Loaded(Unexpired(enc.value, t), d, FALSE)
                 ELSE IF \/ auth = Absent
                         \/ auth.type # "jwt"
                         \/ ~Truthy(auth.token)
                         \/ ~Truthy(auth.refreshToken)
                         \/ Unexpired(auth, t) = NoTokens
                 THEN Loaded(NoTokens, d, FALSE)
                 ELSE LET saved == SaveTokensToDisk(d, Unexpired(auth, t),
                                                    iv, io)
                      IN  Loaded(Unexpired(auth, t), saved.disk, saved.error)

\* loadTokensFromDisk() at time t on the file d (the migration of valid
\* legacy tokens saves them, with iv drawn and the file system failing at
\* io); every exception thrown inside is caught
LoadTokensFromDisk(d, t, iv, io) ==
    LET cfg == ReadConfig(d)
    IN  IF ~cfg.ok \/ cfg.value.kind # "object"
        THEN Loaded(NoTokens, d, FALSE)
        ELSE LET config == cfg.value
                 enc == DecryptedAuth(config)
                 auth == config.auth
             IN  IF enc.ok
                 THEN Loaded(Unexpired(enc.value, t), d, FALSE)
                 ELSE IF \/ auth = Absent
                         \/ auth.type # "jwt"
                         \/ ~Truthy(auth.token)
                         \/ ~Truthy(auth.refreshToken)
                         \/ Unexpired(auth, t) = NoTokens
                 THEN Loaded(NoTokens, d, FALSE)
                 ELSE LET saved == SaveTokensToDisk(d, Unexpired(auth, t),
                                                    iv, io)
                      IN  Loaded(Unexpired(auth, t), saved.disk, saved.error)

\* a call of saveTokensToDisk(tok)
SaveTokens(tok, iv, io) ==
    /\ LET saved == SaveTokensToDisk(disk, tok, iv, io)
       IN  /\ disk' = saved.disk
           /\ lastCall' = [op |-> "save", tokens |-> tok, error |-> saved.error,
                           raised |-> saved.raised]
    /\ UNCHANGED <<now, flowVars, requestTimestamps, oauthTokens, apiKey, pc,
                   authHeader, httpRes, trace, result>>

\* a call of loadTokensFromDisk()
LoadTokens(iv, io) ==
    /\ LET loaded == LoadTokensFromDisk(disk, now, iv, io)
       IN  /\ disk' = loaded.disk
           /\ lastCall' = [op |-> "load", tokens |-> loaded.tokens,
                           error |-> loaded.error, raised |-> loaded.raised]
    /\ UNCHANGED <<now, flowVars, requestTimestamps, oauthTokens, apiKey, pc,
                   authHeader, httpRes, trace, result>>

\* ApiKeyHeader sending the key as a Bearer token
ApiKeyHeaderBearer(k) == [header |-> "Authorization", value |-> k]

ApiKeyHeader(k) == [header |-> "x-app-key", value |-> k]
BearerHeader(tok) == [header |-> "Authorization", value |-> tok.accessToken]
NoHeader == [header |-> NULL, value |-> NULL]

\* what browserOAuthFlow() can settle with at time t
BrowserFlowResults(t) ==
    {CallbackOutcome(q, t) : q \in ClientQueries} \cup {Rejected(TimeoutError)}

\* the identity endpoint's answers to a refresh
RefreshResponses ==
    { [ok |-> TRUE, status |-> 200, body |-> "",
       access_token |-> "at-r", refresh_token |-> "rt-r",
       expires_in |-> Num(3600)],
      [ok |-> TRUE, status |-> 200, body |-> "",
       access_token |-> "at-r", refresh_token |-> "rt-r",
       expires_in |-> Num(10)],
      [ok |-> FALSE, status |-> 400, body |-> "invalid_grant: rt-1",
       access_token |-> NULL, refresh_token |-> NULL, expires_in |-> NaN] }

\* refreshAccessToken(): what it settles with on answer res at time t
RefreshAccessToken(res, t) ==
    IF ~res.ok
    THEN Rejected([msg |-> "Token refresh failed", status |-> res.status,
                   body |-> res.body])
    ELSE Resolved([accessToken |-> res.access_token,
                   refreshToken |-> res.refresh_token,
                   expiresAt |-> JsAdd(Num(t), JsMul(res.expires_in, Num(1000)))])

\* process.env.ULINK_SUPABASE_URL: unset, or a URL as its scheme and the rest
SupabaseOverrides ==
    {NULLSEQ, <<"https://", "custom.supabase.co">>, <<"http://", "evil.com">>}

\* const SUPABASE_URL, as the module computes it when it is loaded with the
\* override env (nothing else is done with it at load time)
SUPABASE_URL(env) ==
    IF env = NULLSEQ THEN <<"https://", "cjgihassfsspxivjtgoi.supabase.co">>
    ELSE env

\* the URL refreshAccessToken sends its POST to
RefreshUrl(env) == SUPABASE_URL(env) \o <<"/auth/v1/token?grant_type=refresh_token">>

\* the module loaded with the override env, then a call of
\* refreshAccessToken(refreshToken) answered with res
RefreshTokens(env, res) ==
    /\ lastCall' = [op |-> "refresh", url |-> RefreshUrl(env), res |-> res,
                    settled |-> RefreshAccessToken(res, now)]
    /\ UNCHANGED <<now, flowVars, requestTimestamps, oauthTokens, apiKey, disk,
                   pc, authHeader, httpRes, trace, result>>

\* the resource API's answers: status, whether the body is JSON, and the
\* message field of a JSON body (NULL: none)
FetchResponses ==
    { res \in [status : {200, 204, 401, 422, 500}, json : BOOLEAN,
               message : {NULL, "backend detail"}] :
          ~res.json => res.message = NULL }
\* no answer yet
NoFetch == [status |-> 0, json |-> FALSE, message |-> NULL]

\* const safeMessages, and the fallback for any other status
SafeMessage(status) ==
    CASE status = 400 -> "Bad request"
      [] status = 401 -> "Authentication failed - please re-authenticate"
      [] status = 403 -> "Access denied - you don't have permission for this resource"
      [] status = 404 -> "Resource not found"
      [] status = 409 -> "Conflict - resource already exists"
      [] status = 422 -> "Validation failed"
      [] status = 429 -> "Too many requests - please slow down"
      [] OTHER -> "Request failed (" \o ToString(status) \o ")"

\* HandleResponse passing the body's message on for every status
HandleResponseBodyMessage(res) ==
    IF res.status = 204 THEN Returned("undefined")
    ELSE IF res.status < 200 \/ res.status > 299
    THEN Threw(ApiError(res.status,
                 IF res.json /\ Truthy(res.message)
                 THEN res.message ELSE SafeMessage(res.status)))
    ELSE IF res.json THEN Returned("json")
    ELSE Threw([msg |-> "SyntaxError"])

\* what apiRequest returns or throws on the answer res
HandleResponse(res) ==
    IF res.status = 204 THEN Returned("undefined")
    ELSE IF res.status < 200 \/ res.status > 299
    THEN Threw(ApiError(res.status,
                 IF res.status = 422 /\ res.json /\ Truthy(res.message)
                 THEN res.message ELSE SafeMessage(res.status)))
    ELSE IF res.json THEN Returned("json")
    ELSE Threw([msg |-> "SyntaxError"])

\* the nonces and file-system outcomes of the saves the request client
\* makes
ClientIVs == {"iv-1"}
ClientSaveOutcomes == {"ok", "write", "chmod"}

\* an exception of the file system, as a call of the client would see it
\* if saveTokensToDisk let it through
SaveError == [msg |-> "EACCES"]

\* WithTokens without step 3: the token in the cache is used as it is
WithTokensNoRefresh(p, tok, tr) ==
    /\ pc' = [pc EXCEPT ![p] = "fetch"]
    /\ trace' = [trace EXCEPT ![p] = Append(tr, "fetch")]
    /\ authHeader' = [authHeader EXCEPT ![p] = BearerHeader(tok)]

\* step 3 of ensureAuth and its return, with tok in the cache: refresh when
\* tok is within the buffer of its expiry, else return the Bearer header and
\* call fetch
WithTokens(p, tok, tr) ==
    IF NeedsRefresh(tok, now)
    THEN /\ pc' = [pc EXCEPT ![p] = "refresh"]
         /\ trace' = [trace EXCEPT ![p] = Append(tr, "refresh")]
         /\ UNCHANGED authHeader
    ELSE /\ pc' = [pc EXCEPT ![p] = "fetch"]
         /\ trace' = [trace EXCEPT ![p] = Append(tr, "fetch")]
         /\ authHeader' = [authHeader EXCEPT ![p] = BearerHeader(tok)]

\* EnsureAuth reading the store on every call, cached token or not
EnsureAuthAlwaysLoad(p) ==
    IF Truthy(apiKey)
    THEN /\ pc' = [pc EXCEPT ![p] = "fetch"]
         /\ trace' = [trace EXCEPT ![p] = <<"fetch">>]
         /\ authHeader' = [authHeader EXCEPT ![p] = ApiKeyHeader(apiKey)]
         /\ UNCHANGED <<oauthTokens, disk>>
    ELSE \E iv \in ClientIVs, io \in ClientSaveOutcomes :
         LET loaded == LoadTokensFromDisk(disk, now, iv, io)
         IN  /\ oauthTokens' = loaded.tokens
             /\ disk' = loaded.disk
             /\ IF loaded.tokens = NoTokens
                THEN /\ pc' = [pc EXCEPT ![p] = "flow"]
                     /\ trace' = [trace EXCEPT ![p] = <<"load", "flow">>]
                     /\ UNCHANGED authHeader
                ELSE WithTokens(p, loaded.tokens, <<"load">>)

\* ensureAuth() up to its first await (or to fetch, when it awaits nothing)
EnsureAuth(p) ==
    IF Truthy(apiKey)
    THEN /\ pc' = [pc EXCEPT ![p] = "fetch"]
         /\ trace' = [trace EXCEPT ![p] = <<"fetch">>]
         /\ authHeader' = [authHeader EXCEPT ![p] = ApiKeyHeader(apiKey)]
         /\ UNCHANGED <<oauthTokens, disk>>
    ELSE \E iv \in ClientIVs, io \in ClientSaveOutcomes :
         LET cached == oauthTokens # NoTokens
             loaded == LoadTokensFromDisk(disk, now, iv, io)
             tok == IF cached THEN oauthTokens ELSE loaded.tokens
             tr == IF cached THEN <<>> ELSE <<"load">>
         IN  /\ oauthTokens' = tok
             /\ disk' = IF cached THEN disk ELSE loaded.disk
             /\ IF tok = NoTokens
                THEN /\ pc' = [pc EXCEPT ![p] = "flow"]
                     /\ trace' = [trace EXCEPT ![p] = Append(tr, "flow")]
                     /\ UNCHANGED authHeader
                ELSE WithTokens(p, tok, tr)

\* apiRequest(method, path, body) up to its first suspension
ApiRequest(p) ==
    /\ pc[p] = "idle"
    /\ LET rl == EnforceRateLimit(requestTimestamps, now)
       IN  /\ requestTimestamps' = rl.ts
           /\ IF rl.throws
              THEN /\ result' = [result EXCEPT ![p] =
                          Threw(ApiError(429, ClientRateLimitMessage))]
                   /\ trace' = [trace EXCEPT ![p] = <<>>]
                   /\ UNCHANGED <<pc, authHeader, oauthTokens, disk>>
              ELSE /\ result' = [result EXCEPT ![p] = NoResult]
                   /\ EnsureAuth(p)
    /\ httpRes' = [httpRes EXCEPT ![p] = NoFetch]
    /\ UNCHANGED <<now, apiKey, flowVars, lastCall>>

\* BrowserFlowDone giving the call's slot of the window back when the flow
\* rejects
BrowserFlowDoneFreeSlot(p, res) ==
    /\ pc[p] = "flow"
    /\ IF res.kind = "rejected"
       THEN /\ pc' = [pc EXCEPT ![p] = "idle"]
            /\ result' = [result EXCEPT ![p] = Threw(res.error)]
            /\ requestTimestamps' =
                   SubSeq(requestTimestamps, 1, Len(requestTimestamps) - 1)
            /\ UNCHANGED <<oauthTokens, disk, trace, authHeader>>
       ELSE /\ oauthTokens' = res.tokens
            /\ \E iv \in ClientIVs, io \in ClientSaveOutcomes :
                   disk' = SaveTokensToDisk(disk, res.tokens, iv, io).disk
            /\ WithTokens(p, res.tokens, Append(trace[p], "save"))
            /\ UNCHANGED <<result, requestTimestamps>>
    /\ UNCHANGED <<now, apiKey, flowVars, lastCall, httpRes>>

\* BrowserFlowDone keeping the tokens another call has cached meanwhile
BrowserFlowDoneKeepCache(p, res) ==
    /\ pc[p] = "flow"
    /\ IF res.kind = "rejected"
       THEN /\ pc' = [pc EXCEPT ![p] = "idle"]
            /\ result' = [result EXCEPT ![p] = Threw(res.error)]
            /\ UNCHANGED <<oauthTokens, disk, trace, authHeader>>
       ELSE LET tok == IF oauthTokens # NoTokens THEN oauthTokens
                       ELSE res.tokens
            IN  /\ oauthTokens' = tok
                /\ \E iv \in ClientIVs, io \in ClientSaveOutcomes :
                       disk' = SaveTokensToDisk(disk, tok, iv, io).disk
                /\ WithTokens(p, tok, Append(trace[p], "save"))
                /\ UNCHANGED result
    /\ UNCHANGED <<now, requestTimestamps, apiKey, flowVars, lastCall, httpRes>>

\* oauthTokens = await browserOAuthFlow(); saveTokensToDisk(oauthTokens)
\* (the first one, with nothing cached or stored), then step 3
BrowserFlowDone(p, res) ==
    /\ pc[p] = "flow"
    /\ IF res.kind = "rejected"
       THEN /\ pc' = [pc EXCEPT ![p] = "idle"]
            /\ result' = [result EXCEPT ![p] = Threw(res.error)]
            /\ UNCHANGED <<oauthTokens, disk, trace, authHeader>>
       ELSE /\ oauthTokens' = res.tokens
            /\ \E iv \in ClientIVs, io \in ClientSaveOutcomes :
                 LET saved == SaveTokensToDisk(disk, res.tokens, iv, io)
                 IN  /\ disk' = saved.disk
                     /\ IF saved.raised
                        THEN /\ pc' = [pc EXCEPT ![p] = "idle"]
                             /\ result' = [result EXCEPT ![p] = Threw(SaveError)]
                             /\ UNCHANGED <<trace, authHeader>>
                        ELSE /\ WithTokens(p, res.tokens,
                                           Append(trace[p], "save"))
                             /\ UNCHANGED result
    /\ UNCHANGED <<now, requestTimestamps, apiKey, flowVars, lastCall, httpRes>>

\* RefreshDone without the catch: a rejected refresh ends the call
RefreshDoneNoCatch(p, res) ==
    /\ pc[p] = "refresh"
    /\ LET r == RefreshAccessToken(res, now)
       IN  IF r.kind = "rejected"
           THEN /\ pc' = [pc EXCEPT ![p] = "idle"]
                /\ result' = [result EXCEPT ![p] = Threw(r.error)]
                /\ UNCHANGED <<oauthTokens, disk, authHeader, trace>>
           ELSE /\ oauthTokens' = r.tokens
                /\ \E iv \in ClientIVs, io \in ClientSaveOutcomes :
                       disk' = SaveTokensToDisk(disk, r.tokens, iv, io).disk
                /\ pc' = [pc EXCEPT ![p] = "fetch"]
                /\ trace' = [trace EXCEPT ![p] = trace[p] \o <<"save", "fetch">>]
                /\ authHeader' = [authHeader EXCEPT ![p] = BearerHeader(r.tokens)]
                /\ UNCHANGED result
    /\ UNCHANGED <<now, requestTimestamps, apiKey, flowVars, lastCall, httpRes>>

\* oauthTokens = await refreshAccessToken(...); saveTokensToDisk(...), or
\* the catch that starts the fallback browser flow
RefreshDone(p, res) ==
    /\ pc[p] = "refresh"
    /\ LET r == RefreshAccessToken(res, now)
       IN  IF r.kind = "rejected"
           THEN /\ pc' = [pc EXCEPT ![p] = "reflow"]
                /\ trace' = [trace EXCEPT ![p] = Append(trace[p], "flow")]
                /\ UNCHANGED <<oauthTokens, disk, authHeader>>
           ELSE /\ oauthTokens' = r.tokens
                /\ \E iv \in ClientIVs, io \in ClientSaveOutcomes :
                     LET saved == SaveTokensToDisk(disk, r.tokens, iv, io)
                     IN  /\ disk' = saved.disk
                         /\ IF saved.raised
                            THEN /\ pc' = [pc EXCEPT ![p] = "reflow"]
                                 /\ trace' = [trace EXCEPT ![p] =
                                                 Append(trace[p], "flow")]
                                 /\ UNCHANGED authHeader
                            ELSE /\ pc' = [pc EXCEPT ![p] = "fetch"]
                                 /\ trace' = [trace EXCEPT ![p] =
                                        trace[p] \o <<"save", "fetch">>]
                                 /\ authHeader' = [authHeader EXCEPT ![p] =
                                                      BearerHeader(r.tokens)]
    /\ UNCHANGED <<now, requestTimestamps, apiKey, result, flowVars, lastCall, httpRes>>

\* FallbackFlowDone without the call of saveTokensToDisk
FallbackFlowDoneNoSave(p, res) ==
    /\ pc[p] = "reflow"
    /\ IF res.kind = "rejected"
       THEN /\ pc' = [pc EXCEPT ![p] = "idle"]
            /\ result' = [result EXCEPT ![p] = Threw(res.error)]
            /\ UNCHANGED <<oauthTokens, disk, trace, authHeader>>
       ELSE /\ oauthTokens' = res.tokens
            /\ disk' = disk
            /\ pc' = [pc EXCEPT ![p] = "fetch"]
            /\ trace' = [trace EXCEPT ![p] = Append(trace[p], "fetch")]
            /\ authHeader' = [authHeader EXCEPT ![p] = BearerHeader(res.tokens)]
            /\ UNCHANGED result
    /\ UNCHANGED <<now, requestTimestamps, apiKey, flowVars, lastCall, httpRes>>

\* FallbackFlowDone emptying the cache when the flow rejects
FallbackFlowDoneDropCache(p, res) ==
    /\ pc[p] = "reflow"
    /\ IF res.kind = "rejected"
       THEN /\ pc' = [pc EXCEPT ![p] = "idle"]
            /\ result' = [result EXCEPT ![p] = Threw(res.error)]
            /\ oauthTokens' = NoTokens
            /\ UNCHANGED <<disk, trace, authHeader>>
       ELSE /\ oauthTokens' = res.tokens
            /\ \E iv \in ClientIVs, io \in ClientSaveOutcomes :
                   disk' = SaveTokensToDisk(disk, res.tokens, iv, io).disk
            /\ pc' = [pc EXCEPT ![p] = "fetch"]
            /\ trace' = [trace EXCEPT ![p] = trace[p] \o <<"save", "fetch">>]
            /\ authHeader' = [authHeader EXCEPT ![p] = BearerHeader(res.tokens)]
            /\ UNCHANGED result
    /\ UNCHANGED <<now, requestTimestamps, apiKey, flowVars, lastCall, httpRes>>

\* FallbackFlowDone looking at the expiry of the flow's tokens again
FallbackFlowDoneRecheck(p, res) ==
    /\ pc[p] = "reflow"
    /\ IF res.kind = "rejected"
       THEN /\ pc' = [pc EXCEPT ![p] = "idle"]
            /\ result' = [result EXCEPT ![p] = Threw(res.error)]
            /\ UNCHANGED <<oauthTokens, disk, trace, authHeader>>
       ELSE /\ oauthTokens' = res.tokens
            /\ \E iv \in ClientIVs, io \in ClientSaveOutcomes :
                   disk' = SaveTokensToDisk(disk, res.tokens, iv, io).disk
            /\ WithTokens(p, res.tokens, Append(trace[p], "save"))
            /\ UNCHANGED result
    /\ UNCHANGED <<now, requestTimestamps, apiKey, flowVars, lastCall, httpRes>>

\* oauthTokens = await browserOAuthFlow(); saveTokensToDisk(oauthTokens)
\* in the catch of a failed refresh
FallbackFlowDone(p, res) ==
    /\ pc[p] = "reflow"
    /\ IF res.kind = "rejected"
       THEN /\ pc' = [pc EXCEPT ![p] = "idle"]
            /\ result' = [result EXCEPT ![p] = Threw(res.error)]
            /\ UNCHANGED <<oauthTokens, disk, trace, authHeader>>
       ELSE /\ oauthTokens' = res.tokens
            /\ \E iv \in ClientIVs, io \in ClientSaveOutcomes :
                 LET saved == SaveTokensToDisk(disk, res.tokens, iv, io)
                 IN  /\ disk' = saved.disk
                     /\ IF saved.raised
                        THEN /\ pc' = [pc EXCEPT ![p] = "idle"]
                             /\ result' = [result EXCEPT ![p] = Threw(SaveError)]
                             /\ UNCHANGED <<trace, authHeader>>
                        ELSE /\ pc' = [pc EXCEPT ![p] = "fetch"]
                             /\ trace' = [trace EXCEPT ![p] =
                                    trace[p] \o <<"save", "fetch">>]
                             /\ authHeader' = [authHeader EXCEPT ![p] =
                                                  BearerHeader(res.tokens)]
                             /\ UNCHANGED result
    /\ UNCHANGED <<now, requestTimestamps, apiKey, flowVars, lastCall, httpRes>>

\* FetchDone with the timestamp of the call recorded here, after the
\* suspensions of the call, and not when it was admitted
FetchDoneRecords(p, res) ==
    /\ pc[p] = "fetch"
    /\ pc' = [pc EXCEPT ![p] = "idle"]
    /\ httpRes' = [httpRes EXCEPT ![p] = res]
    /\ result' = [result EXCEPT ![p] = HandleResponse(res)]
    /\ requestTimestamps' = Append(requestTimestamps, now)
    /\ UNCHANGED <<now, oauthTokens, apiKey, disk,
                   authHeader, trace, flowVars, lastCall>>

\* the answer to fetch, and what apiRequest makes of it
FetchDone(p, res) ==
    /\ pc[p] = "fetch"
    /\ pc' = [pc EXCEPT ![p] = "idle"]
    /\ httpRes' = [httpRes EXCEPT ![p] = res]
    /\ result' = [result EXCEPT ![p] = HandleResponse(res)]
    /\ UNCHANGED <<now, requestTimestamps, oauthTokens, apiKey, disk,
                   authHeader, trace, flowVars, lastCall>>

-----------------------------------------------------------------------------
(* Specifications *)

FlowIdle ==
    /\ server = "none"
    /\ sessionId = NULL
    /\ settled = FALSE
    /\ callbackAttempts = 0
    /\ outcome = Pending
    /\ timer = "unset"
    /\ flowStart = 0
    /\ browserOpened = FALSE
    /\ req = NoRequest
    /\ resp = NoResponse
    /\ mismatches = 0
    /\ afterSettle = FALSE

\* saveTokensToDisk / loadTokensFromDisk not called yet
NoCall == [op |-> "none"]

ClientIdle ==
    /\ lastCall = NoCall
    /\ requestTimestamps = <<>>
    /\ oauthTokens = NoTokens
    /\ pc = [p \in Calls |-> "idle"]
    /\ authHeader = [p \in Calls |-> NoHeader]
    /\ httpRes = [p \in Calls |-> NoFetch]
    /\ trace = [p \in Calls |-> <<>>]
    /\ result = [p \in Calls |-> NoResult]

\* what the config file can hold when the process starts: nothing, the
\* tokens of an earlier run, or the legacy section another tool wrote
StoredTokens ==
    { NoFile,
      File(JsonStringify(Config(Absent,
               Encrypt(JsonStringify(CliAuthSection("jwt", "at-0", "rt-0",
                           ToISOString(Num(20000)))), MachineKey, "iv-0"),
               Absent)), "0600"),
      File(JsonStringify(Config(
               CliAuthSection("jwt", "at-0", "rt-0", ToISOString(Num(20000))),
               Absent, Absent)), "0644") }

FlowInit ==
    /\ now = 0
    /\ FlowIdle
    /\ ClientIdle
    /\ apiKey = NULL
    /\ disk = NoFile

Init ==
    /\ now = 0
    /\ FlowIdle
    /\ ClientIdle
    /\ apiKey \in {NULL, "key-1"}
    /\ disk \in StoredTokens

\* the caller serializes its calls: one call at a time
Next ==
    \/ Len(requestTimestamps) < MaxRequests /\ ApiRequest(1)
    \/ \E res \in BrowserFlowResults(now) : BrowserFlowDone(1, res)
    \/ \E res \in RefreshResponses : RefreshDone(1, res)
    \/ \E res \in BrowserFlowResults(now) : FallbackFlowDone(1, res)
    \/ \E res \in FetchResponses : FetchDone(1, res)
    \/ \E d \in TickSteps : Tick(d)

Spec == Init /\ [][Next]_vars

\* the token store and the refresher called directly, on the files and the
\* answers they can find
LegacySections ==
    { Absent,
      CliAuthSection("jwt", "at-L", "rt-L", ToISOString(Num(20000))),
      CliAuthSection("jwt", "at-L", "rt-L", ToISOString(Num(5000))),
      CliAuthSection("jwt", "at-L", "rt-L", InvalidDate),
      CliAuthSection("session", "at-L", "rt-L", ToISOString(Num(20000))) }

\* an encrypted field whose iv part was replaced: the tag no longer fits
Tampered(encoded) ==
    [encoded EXCEPT !.parts[1] = [part |-> "iv", iv |-> "iv-x"]]

EncryptedFields ==
    { Absent,
      [kind |-> "number"],
      [kind |-> "string", parts |-> <<[part |-> "iv", iv |-> "iv-0"]>>],
      Encrypt(JsonStringify(CliAuthSection("jwt", "at-0", "rt-0",
                  ToISOString(Num(20000)))), MachineKey, "iv-0"),
      Encrypt(JsonStringify(CliAuthSection("jwt", "at-0", "rt-0",
                  ToISOString(Num(5000)))), MachineKey, "iv-0"),
      Encrypt(JsonStringify(CliAuthSection("jwt", "at-0", "rt-0",
                  InvalidDate)), MachineKey, "iv-0"),
      Encrypt(JsonStringify(CliAuthSection("jwt", "at-0", "rt-0",
                  ToISOString(Num(20000)))), OtherKey, "iv-0"),
      Tampered(Encrypt(JsonStringify(CliAuthSection("jwt", "at-0", "rt-0",
                  ToISOString(Num(20000)))), MachineKey, "iv-0")),
      Encrypt(JsonStringify(CliAuthSection("session", "at-0", "rt-0",
                  ToISOString(Num(20000)))), MachineKey, "iv-0") }

OtherFields == {Absent, [projects |-> <<"p1">>]}

ConfigFiles ==
    {NoFile, Unreadable}
    \cup {File(text, mode) :
             text \in {NotJson, JsonStringify(JsonNull), JsonStringify(JsonArray)},
             mode \in {"0644", "0600"}}
    \cup {File(JsonStringify(Config(auth, enc, other)), mode) :
             auth \in LegacySections, enc \in EncryptedFields,
             other \in OtherFields, mode \in {"0644", "0600"}}

\* the triples saveTokensToDisk is called with
TokenInputs ==
    {[accessToken |-> "at-1", refreshToken |-> "rt-1", expiresAt |-> e] :
        e \in {Num(5000), Num(20000), NaN}}

StoreInit ==
    /\ now = 0
    /\ FlowIdle
    /\ ClientIdle
    /\ apiKey = NULL
    /\ disk \in ConfigFiles

StoreNext ==
    \/ \E tok \in TokenInputs, iv \in IVs, io \in SaveOutcomes :
           SaveTokens(tok, iv, io)
    \/ \E iv \in IVs, io \in SaveOutcomes : LoadTokens(iv, io)
    \/ \E env \in SupabaseOverrides, res \in RefreshResponses :
           RefreshTokens(env, res)
    \/ \E d \in TickSteps : Tick(d)

StoreSpec == StoreInit /\ [][StoreNext]_vars

\* the rate limiter: calls that may overlap, authenticated by an API key
\* and answered 200, or with no key and no tokens and a browser flow that
\* nobody completes
RateInit ==
    /\ now = 0
    /\ FlowIdle
    /\ ClientIdle
    /\ apiKey \in {NULL, "key-1"}
    /\ disk = NoFile

OkResponses ==
    {res \in FetchResponses : res.status = 200 /\ res.json /\ res.message = NULL}

RateNext ==
    \/ \E p \in Calls : ApiRequest(p)
    \/ \E p \in Calls : \E res \in OkResponses : FetchDone(p, res)
    \/ \E p \in Calls : BrowserFlowDone(p, Rejected(TimeoutError))
    \/ \E d \in TickSteps : Tick(d)

RateSpec == RateInit /\ [][RateNext]_vars

\* a caller that starts calls while others are running
Overlapping == TRUE

\* the caller that serializes: it awaits each apiRequest before the next
Serialized == \A q \in Calls : pc[q] = "idle"

\* two callers' worth of calls (1 and 2), started one after the other,
\* with no API key
SerialInit ==
    /\ now = 0
    /\ FlowIdle
    /\ ClientIdle
    /\ apiKey = NULL
    /\ disk = NoFile

SerialNext ==
    \/ \E p \in Calls :
           /\ Serialized
           /\ Len(requestTimestamps) < MaxRequests
           /\ ApiRequest(p)
    \/ \E p \in Calls : \E res \in BrowserFlowResults(now) :
           BrowserFlowDone(p, res)
    \/ \E p \in Calls : \E res \in RefreshResponses : RefreshDone(p, res)
    \/ \E p \in Calls : \E res \in BrowserFlowResults(now) :
           FallbackFlowDone(p, res)
    \/ \E p \in Calls : \E res \in OkResponses : FetchDone(p, res)
    \/ \E d \in TickSteps : Tick(d)

SerialSpec == SerialInit /\ [][SerialNext]_vars

\* two calls that overlap, with no API key and nothing stored; the browser
\* flow of call p, when completed, yields the tokens at-p / rt-p
OverlapFlowResults(p, t) ==
    { CallbackOutcome(Query(NULL, NULL, IF p = 1 THEN "at-1" ELSE "at-2",
                            IF p = 1 THEN "rt-1" ELSE "rt-2",
                            <<"3", "6", "0", "0">>), t),
      Rejected(TimeoutError) }

OverlapInit ==
    /\ now = 0
    /\ FlowIdle
    /\ ClientIdle
    /\ apiKey = NULL
    /\ disk = NoFile

OverlapNext ==
    \/ \E p \in Calls :
           /\ Len(requestTimestamps) < MaxRequests
           /\ ApiRequest(p)
    \/ \E p \in Calls : \E res \in OverlapFlowResults(p, now) :
           BrowserFlowDone(p, res)
    \/ \E p \in Calls : \E res \in OkResponses : FetchDone(p, res)
    \/ \E d \in TickSteps : Tick(d)

OverlapSpec == OverlapInit /\ [][OverlapNext]_vars

FlowNext ==
    \/ StartFlow
    \/ \E ok \in BOOLEAN : ListenCallback(ok)
    \/ ListenError
    \/ \E r \in Requests : HandleRequest(r)
    \/ TimerFire
    \/ \E d \in TickSteps : Tick(d)

FlowSpec == FlowInit /\ [][FlowNext]_vars

\* the event loop runs the listen callback, and the timer's callback when
\* its time has come
FlowFairSpec ==
    /\ FlowSpec
    /\ WF_vars(\E ok \in BOOLEAN : ListenCallback(ok))
    /\ WF_vars(TimerFire)

-----------------------------------------------------------------------------
(* Properties of browserOAuthFlow, checked under FlowSpec *)

\* a step in which the handler ran on a /callback request, req'
CallbackStep == callbackAttempts' = callbackAttempts + 1

\* the request passed the attempt limit and the session check
Passed == callbackAttempts' <= MAX_CALLBACK_ATTEMPTS /\ req'.session = sessionId

\* Nothing of the flow's settlement changes in the step
NotSettledByStep ==
    outcome' = outcome /\ settled' = settled /\ server' = server

\* C1: once the Promise of browserOAuthFlow has been settled (success,
\* error or timeout), no later callback and no timer firing settles it again
\* or changes what it was settled with.
C1_SettledOnce ==
    [][outcome.kind # "pending" => outcome' = outcome]_vars

\* a flow that succeeded, on which a further callback and the timer then ran
C1_Witness ==
    /\ outcome.kind = "resolved"
    /\ afterSettle
    /\ callbackAttempts >= 2
    /\ timer = "fired"

\* C2 as stated: a /callback request with another session is answered 400
\* and never settles the flow, and a callback with the right session and all
\* three token parameters that follows mismatched ones settles a pending
\* flow as succeeded.
C2_Original ==
    [][CallbackStep =>
        /\ req'.session # sessionId =>
              resp'.status = 400 /\ NotSettledByStep
        /\ ( /\ req'.session = sessionId
             /\ ~HasError(req')
             /\ ~MissingTokens(req')
             /\ outcome.kind = "pending"
             /\ mismatches >= 1 )
           => outcome'.kind = "resolved"]_vars

\* C2 as amended: a /callback request with another session never settles
\* the flow and is answered 400, or 429 when it is the 6th or a later
\* /callback request; a callback with the right session and all three token
\* parameters that is among the first 5 /callback requests of a pending flow
\* settles it as succeeded, whatever mismatched callbacks came before it.
C2_MismatchNeverSettles ==
    [][CallbackStep =>
        /\ req'.session # sessionId =>
              /\ resp'.status =
                    (IF callbackAttempts' > MAX_CALLBACK_ATTEMPTS THEN 429 ELSE 400)
              /\ NotSettledByStep
        /\ ( /\ Passed
             /\ ~HasError(req')
             /\ ~MissingTokens(req')
             /\ outcome.kind = "pending" )
           => /\ outcome'.kind = "resolved"
              /\ settled'
              /\ resp'.page = "success"]_vars

\* four mismatched callbacks, then the right one, which succeeded
C2_Witness ==
    /\ mismatches = 4
    /\ callbackAttempts = 5
    /\ outcome.kind = "resolved"
    /\ resp.page = "success"

\* C3: every /callback request counts as an attempt, the mismatched ones
\* too, since the counter is incremented before the session is looked at;
\* the 6th and every later /callback request is answered 429 and settles
\* nothing, whatever its session and parameters, and none of the first 5 is
\* answered 429.
C3_AttemptLimit ==
    [][/\ mismatches' # mismatches => CallbackStep
       /\ (req' # req \/ resp' # resp) /\ req'.path = "/callback" => CallbackStep
       /\ CallbackStep =>
            IF callbackAttempts' > MAX_CALLBACK_ATTEMPTS
            THEN resp'.status = 429 /\ NotSettledByStep /\ mismatches' = mismatches
            ELSE resp'.status # 429]_vars

\* the 7th request, with the right session and all tokens, answered 429 on
\* a flow that is still pending
C3_Witness ==
    /\ callbackAttempts = 7
    /\ resp.status = 429
    /\ req.session = sessionId
    /\ ~HasError(req)
    /\ ~MissingTokens(req)
    /\ outcome.kind = "pending"

\* C4: whenever the flow has a terminal outcome (success, error or missing
\* parameter callback, timeout, bind failure) the server listens no more:
\* it was closed, or never bound a port.
C4_ListenerReleased ==
    outcome.kind # "pending" => server \in {"closed", "unbound"}

\* the timeout path: the flow timed out and the listener is closed
C4_Witness ==
    /\ outcome = Rejected(TimeoutError)
    /\ server = "closed"
    /\ browserOpened
    /\ callbackAttempts >= 1

SettledByCallback ==
    \/ outcome.kind = "resolved"
    \/ outcome.kind = "rejected" /\ outcome.error \notin {TimeoutError, BindError}

\* C6 as stated: once a terminal callback has settled the flow, every
\* further /callback request is rejected or rate-limited: none is handled
\* as a delivery of tokens and answered with the success page.
C6_Original ==
    [][CallbackStep /\ SettledByCallback => resp'.page # "success"]_vars

\* C7 as stated: a /callback request that passes the attempt limit and the
\* session check settles a pending flow; with an error parameter present it
\* rejects with the OAuth error of that code and description, whatever
\* tokens come with it; else with a token parameter missing it rejects with
\* the missing-parameters error.
C7_Original ==
    [][CallbackStep /\ Passed /\ outcome.kind = "pending" =>
        /\ settled' /\ outcome'.kind # "pending"
        /\ req'.error # NULL =>
              outcome' = Rejected(OAuthError(req'.error, ErrorDescription(req')))
        /\ req'.error = NULL /\ MissingTokens(req') =>
              outcome' = Rejected(MissingParamsError)]_vars

\* C7 as amended: the same, with the error branch taken for an error
\* parameter that is present and not empty; an empty error parameter is
\* treated as no error.
C7_ValidationOrder ==
    [][CallbackStep /\ Passed /\ outcome.kind = "pending" =>
        /\ settled' /\ outcome'.kind # "pending" /\ server' = "closed"
        /\ req'.error \notin {NULL, ""} =>
              /\ outcome' = Rejected(OAuthError(req'.error, ErrorDescription(req')))
              /\ resp' = Response(200, "error", ErrorDescription(req'))
        /\ req'.error \in {NULL, ""} /\ MissingTokens(req') =>
              /\ outcome' = Rejected(MissingParamsError)
              /\ resp'.status = 200 /\ resp'.page = "error"]_vars

\* an error callback that carried all three tokens and failed the flow
C7_Witness ==
    /\ outcome = Rejected(OAuthError("access_denied", "denied by user"))
    /\ req.access_token = "at-1"
    /\ req.refresh_token = "rt-1"
    /\ TruthySeq(req.expires_in)
    /\ settled

\* the decimal numeral q stands for n
RECURSIVE IsNumeral(_, _)
IsNumeral(q, n) ==
    /\ q # <<>>
    /\ IsDigit(q[Len(q)])
    /\ DigitValue(q[Len(q)]) = n % 10
    /\ IF Len(q) = 1 THEN n < 10
       ELSE IsNumeral(SubSeq(q, 1, Len(q) - 1), n \div 10)

\* C8 as stated: a /callback request that passes the attempt limit and the
\* session check, without error and with all three token parameters,
\* settles a pending flow as succeeded with those access and refresh tokens
\* and expiresAt = time of the callback + expires_in * 1000.
C8_Original ==
    [][CallbackStep /\ Passed /\ outcome.kind = "pending"
         /\ req'.error = NULL /\ ~MissingTokens(req') =>
        /\ outcome'.kind = "resolved"
        /\ outcome'.tokens.accessToken = req'.access_token
        /\ outcome'.tokens.refreshToken = req'.refresh_token
        /\ ~outcome'.tokens.expiresAt.nan
        /\ \E n \in 0..3600 :
              /\ IsNumeral(req'.expires_in, n)
              /\ outcome'.tokens.expiresAt.v = now + n * 1000]_vars

-----------------------------------------------------------------------------
(* Properties of the rate limiter with overlapping calls, under RateSpec *)

\* the entries of the window ts younger than the window's length at time t
Young(ts, t) == SelectSeq(ts, LAMBDA x : x > t - RATE_LIMIT_WINDOW_MS)

\* a step in which call p of apiRequest starts and is admitted or newly
\* rejected
StartStep(p) ==
    /\ pc[p] = "idle"
    /\ now' = now
    /\ pc'[p] # "idle" \/ result'[p] # result[p]

NonDecreasing(ts) == \A i \in 1..Len(ts) - 1 : ts[i] <= ts[i + 1]
StrictlyIncreasing(ts) == \A i \in 1..Len(ts) - 1 : ts[i] < ts[i + 1]

\* ts2 is ts1 with entries removed from the front and at most t appended
FrontRemoved(ts1, ts2, t) ==
    \E k \in 0..Len(ts1) :
        LET rest == SubSeq(ts1, k + 1, Len(ts1))
        IN  ts2 = rest \/ ts2 = Append(rest, t)

\* C9: a call of apiRequest made while the window holds 30 timestamps
\* younger than 10 seconds throws the 429 ApiError at once: it loads no
\* token, starts no browser flow, no refresh and no fetch, and leaves the
\* window, the cached token and the store as they were; any other call
\* records the current time as the window's last entry.
C9_RejectedWithoutEffect ==
    [][\A p \in Calls : StartStep(p) =>
        IF Len(Young(requestTimestamps, now)) >= RATE_LIMIT_MAX
        THEN /\ result'[p] = Threw(ApiError(429, ClientRateLimitMessage))
             /\ trace'[p] = <<>>
             /\ pc'[p] = "idle"
             /\ requestTimestamps' = requestTimestamps
             /\ oauthTokens' = oauthTokens
             /\ disk' = disk
             /\ authHeader' = authHeader
        ELSE /\ requestTimestamps' =
                    Append(Young(requestTimestamps, now), now)
             /\ result'[p] = NoResult]_vars

\* a rejected call with no API key and nothing cached: admitted, it would
\* have read the store and opened the browser
C9_Witness ==
    /\ result[1] = Threw(ApiError(429, ClientRateLimitMessage))
    /\ Len(requestTimestamps) = RATE_LIMIT_MAX
    /\ requestTimestamps[1] < requestTimestamps[RATE_LIMIT_MAX]
    /\ apiKey = NULL
    /\ oauthTokens = NoTokens
    /\ trace[1] = <<>>
    /\ pc[1] = "idle"

\* C10 as stated: the window never holds more than 30 entries, its entries
\* are strictly increasing, and entries leave it from the front only.
C10_Original ==
    [][/\ Len(requestTimestamps') <= RATE_LIMIT_MAX
       /\ StrictlyIncreasing(requestTimestamps')
       /\ FrontRemoved(requestTimestamps, requestTimestamps', now)]_vars

\* C10 as amended: the window never holds more than 30 entries, its entries
\* never decrease (calls within one millisecond record equal entries), and
\* entries leave it from the front only.
C10_WindowBounded ==
    [][/\ Len(requestTimestamps') <= RATE_LIMIT_MAX
       /\ NonDecreasing(requestTimestamps')
       /\ FrontRemoved(requestTimestamps, requestTimestamps', now)]_vars

\* a full window with equal entries and with entries of different times
C10_Witness ==
    /\ Len(requestTimestamps) = RATE_LIMIT_MAX
    /\ requestTimestamps[1] = requestTimestamps[2]
    /\ requestTimestamps[1] = 5000
    /\ requestTimestamps[RATE_LIMIT_MAX] = 10000

\* C11: a call made when the window is empty, or when more than 10 seconds
\* have passed since its oldest entry, is admitted (it records the current
\* time and goes on to authenticate), whatever was rejected before; and a
\* rejected call leaves the window as it was, so it does not delay the
\* next admission.
C11_AdmittedAgain ==
    [][\A p \in Calls : StartStep(p) =>
        /\ (requestTimestamps = <<>>
              \/ now - requestTimestamps[1] > RATE_LIMIT_WINDOW_MS) =>
               /\ pc'[p] \in {"fetch", "flow"}
               /\ result'[p] = NoResult
               /\ requestTimestamps' # <<>>
               /\ requestTimestamps'[Len(requestTimestamps')] = now
        /\ result'[p] = Threw(ApiError(429, ClientRateLimitMessage)) =>
               requestTimestamps' = requestTimestamps]_vars

\* call 1 was rejected on a full window, and 15 seconds after the window's
\* first entry call 2 was admitted
C11_Witness ==
    /\ result[1] = Threw(ApiError(429, ClientRateLimitMessage))
    /\ pc[1] = "idle"
    /\ pc[2] = "fetch"
    /\ requestTimestamps = <<15000>>

-----------------------------------------------------------------------------
(* Properties of the request client, checked under Spec *)

\* C12: with an API key configured, a call of apiRequest that is admitted
\* goes straight to the HTTP call with the header x-app-key carrying the key
\* as it is; no step of the call reads or writes the token store, starts a
\* browser flow or a refresh, or changes the cached OAuth token.
C12_ApiKeyOnly ==
    [][Truthy(apiKey) =>
        /\ oauthTokens' = oauthTokens
        /\ disk' = disk
        /\ pc'[1] \in {"idle", "fetch"}
        /\ trace'[1] \in {<<>>, <<"fetch">>}
        /\ pc'[1] = "fetch" =>
               authHeader'[1] = [header |-> "x-app-key", value |-> apiKey]]_vars

\* a call with an API key on its way to the API while the store holds
\* tokens that a call without the key would have loaded
C12_Witness ==
    /\ apiKey = "key-1"
    /\ disk # NoFile
    /\ pc[1] = "fetch"
    /\ trace[1] = <<"fetch">>
    /\ authHeader[1].value = "key-1"
    /\ oauthTokens = NoTokens

\* the triple the encrypted field of the file d holds for this machine,
\* expired or not
Persisted(d) ==
    LET cfg == ReadConfig(d)
    IN  IF cfg.ok /\ cfg.value.kind = "object" /\ DecryptedAuth(cfg.value).ok
        THEN LET auth == DecryptedAuth(cfg.value).value
             IN  [accessToken |-> auth.token,
                  refreshToken |-> auth.refreshToken,
                  expiresAt |-> DateGetTime(auth.expiresAt)]
        ELSE NoTokens

\* q is the sequence r followed by more
StartsWith(q, r) == Len(q) >= Len(r) /\ SubSeq(q, 1, Len(r)) = r

\* C13: without an API key, an admitted call with a cached token neither
\* reads the store nor starts the first browser flow and leaves cache and
\* store alone; with an empty cache it reads the store first, caches what
\* the store yields, and starts the browser flow only when the store yields
\* nothing; the tokens of that flow are cached and handed to the save, which
\* leaves them in the store unless the write failed.
C13_CacheStoreFlow ==
    [][/\ (StartStep(1) /\ ~Truthy(apiKey) /\ pc'[1] # "idle") =>
           IF oauthTokens # NoTokens
           THEN /\ trace'[1] \in {<<"refresh">>, <<"fetch">>}
                /\ oauthTokens' = oauthTokens
                /\ disk' = disk
           ELSE IF oauthTokens' # NoTokens
           THEN trace'[1] \in {<<"load", "refresh">>, <<"load", "fetch">>}
           ELSE trace'[1] = <<"load", "flow">> /\ pc'[1] = "flow"
       /\ (pc[1] = "flow" /\ pc'[1] # "flow") =>
           \/ /\ pc'[1] = "idle"
              /\ result'[1].kind = "threw"
              /\ oauthTokens' = oauthTokens
              /\ disk' = disk
           \/ /\ oauthTokens' # NoTokens
              /\ StartsWith(trace'[1], <<"load", "flow", "save">>)
              /\ disk' = disk \/ Persisted(disk') = oauthTokens']_vars

\* the first call found nothing cached or stored and ran the browser flow,
\* whose tokens were stored; the second call used the cached tokens
C13_Witness ==
    /\ apiKey = NULL
    /\ Len(requestTimestamps) = 2
    /\ trace[1] = <<"fetch">>
    /\ oauthTokens.accessToken = "at-1"
    /\ Persisted(disk) = oauthTokens

\* the number of entries of the sequence q equal to x
Count(q, x) == Len(SelectSeq(q, LAMBDA y : y = x))

\* in the step, ensureAuth comes to its step 3 with the token oauthTokens'
ResolvedStep ==
    /\ ~Truthy(apiKey)
    /\ oauthTokens' # NoTokens
    /\ \/ StartStep(1) /\ pc'[1] # "idle"
       \/ pc[1] = "flow" /\ pc'[1] # "flow"

\* C14: when ensureAuth comes to a token with less than 30 seconds left,
\* it calls the refresher, once, and does not dispatch yet; with 30 seconds
\* or more left it dispatches with that token.  A refresh that succeeds is
\* followed by the save and the dispatch with the refresher's token; one
\* that rejects is followed by one browser flow, and the dispatch then
\* carries that flow's token.  No call refreshes twice.
C14_RefreshThenFallback ==
    [][/\ ResolvedStep =>
           IF /\ ~oauthTokens'.expiresAt.nan
              /\ oauthTokens'.expiresAt.v - now < TOKEN_REFRESH_BUFFER_MS
           THEN /\ pc'[1] = "refresh"
                /\ Count(trace'[1], "refresh") = 1
                /\ Count(trace'[1], "fetch") = 0
           ELSE /\ pc'[1] = "fetch"
                /\ Count(trace'[1], "refresh") = 0
                /\ authHeader'[1] = [header |-> "Authorization",
                                     value |-> oauthTokens'.accessToken]
       /\ (pc[1] = "refresh" /\ pc'[1] # "refresh") =>
           \/ /\ pc'[1] = "fetch"
              /\ trace'[1] = trace[1] \o <<"save", "fetch">>
              /\ oauthTokens'.accessToken = "at-r"
              /\ authHeader'[1] = [header |-> "Authorization", value |-> "at-r"]
           \/ /\ pc'[1] = "reflow"
              /\ trace'[1] = Append(trace[1], "flow")
              /\ oauthTokens' = oauthTokens
       /\ (pc[1] = "reflow" /\ pc'[1] # "reflow") =>
           \/ /\ pc'[1] = "idle"
              /\ result'[1].kind = "threw"
              /\ trace'[1] = trace[1]
           \/ /\ pc'[1] = "fetch"
              /\ trace'[1] = trace[1] \o <<"save", "fetch">>
              /\ oauthTokens'.accessToken = "at-1"
              /\ authHeader'[1] = [header |-> "Authorization", value |-> "at-1"]
       /\ Count(trace'[1], "refresh") <= 1]_vars

\* the stored token was loaded with 20 seconds or less left, its refresh
\* was rejected, and the call dispatches with the fallback flow's token
C14_Witness ==
    /\ trace[1] = <<"load", "refresh", "flow", "save", "fetch">>
    /\ pc[1] = "fetch"
    /\ authHeader[1] = [header |-> "Authorization", value |-> "at-1"]

\* e is the error refreshAccessToken throws
IsRefreshError(e) == "msg" \in DOMAIN e /\ e.msg = "Token refresh failed"

\* e is an ApiError
IsApiError(e) == "name" \in DOMAIN e /\ e.name = "ApiError"

\* C15: apiRequest never throws the refresher's error.  A refresh that
\* fails leaves the call running, with the fallback browser flow started;
\* when that flow succeeds the request is dispatched, and the call ends as
\* the HTTP response decides: with a return value, an ApiError, or the
\* decoding error of a success response whose body is no JSON.
C15_RefreshFailureHidden ==
    [][/\ result'[1].kind = "threw" => ~IsRefreshError(result'[1].error)
       /\ (pc[1] = "refresh" /\ pc'[1] # "refresh") =>
              /\ pc'[1] \in {"fetch", "reflow"}
              /\ result'[1] = NoResult
       /\ (pc[1] = "reflow" /\ pc'[1] # "reflow"
             /\ result'[1].kind # "threw") =>
              /\ pc'[1] = "fetch"
              /\ result'[1] = NoResult
       /\ (pc[1] = "fetch" /\ pc'[1] = "idle") =>
              \/ result'[1].kind = "returned"
              \/ /\ result'[1].kind = "threw"
                 /\ \/ IsApiError(result'[1].error)
                    \/ httpRes'[1].status = 200 /\ ~httpRes'[1].json]_vars

\* a call that returned a value after its refresh was rejected and its
\* fallback browser flow succeeded
C15_Witness ==
    /\ trace[1] = <<"load", "refresh", "flow", "save", "fetch">>
    /\ pc[1] = "idle"
    /\ result[1].kind = "returned"

\* in the step, call 1 obtains tokens from the browser flow or from the
\* refresher
ObtainedStep ==
    \/ pc[1] = "flow" /\ pc'[1] \in {"refresh", "fetch"}
    \/ pc[1] \in {"refresh", "reflow"} /\ pc'[1] = "fetch"

\* C16: the tokens a call obtains from the browser flow or the refresher
\* are in the cache and have been handed to the save (which leaves them in
\* the store unless the write failed) before the call's HTTP request is
\* dispatched, and the request carries the cached token; the cache, once it
\* holds a token, is never emptied.
C16_SavedAndCachedFirst ==
    [][/\ ObtainedStep =>
           /\ Count(trace[1], "fetch") = 0
           /\ oauthTokens' # NoTokens
           /\ oauthTokens'.accessToken =
                  IF pc[1] = "refresh" THEN "at-r" ELSE "at-1"
           /\ Len(trace'[1]) > Len(trace[1])
           /\ trace'[1][Len(trace[1]) + 1] = "save"
           /\ disk' = disk \/ Persisted(disk') = oauthTokens'
           /\ pc'[1] = "fetch" =>
                  authHeader'[1].value = oauthTokens'.accessToken
       /\ oauthTokens # NoTokens => oauthTokens' # NoTokens]_vars

\* the refresher's tokens, cached and stored, with the request on its way
C16_Witness ==
    /\ pc[1] = "fetch"
    /\ trace[1] = <<"load", "refresh", "save", "fetch">>
    /\ oauthTokens.accessToken = "at-r"
    /\ Persisted(disk) = oauthTokens

-----------------------------------------------------------------------------
(* Properties of the token store, checked under StoreSpec *)

\* the file d holds a JSON object with the encrypted authentication field
\* and without the legacy one
EncryptedOnly(d) ==
    /\ ReadConfig(d).ok
    /\ ReadConfig(d).value.kind = "object"
    /\ ReadConfig(d).value.auth_encrypted.kind = "string"
    /\ ReadConfig(d).value.auth = Absent

\* C18 as stated: a loadTokensFromDisk() that follows a saveTokensToDisk(T)
\* on the same machine returns T, and the file holds the encrypted field
\* only -- for T with an expiry that is a time after the load, and a save
\* that met no error.
C18_Original ==
    [][(/\ lastCall.op = "save"
        /\ ~lastCall.error
        /\ ~lastCall.tokens.expiresAt.nan
        /\ lastCall.tokens.expiresAt.v > now
        /\ lastCall'.op = "load") =>
           /\ lastCall'.tokens = lastCall.tokens
           /\ EncryptedOnly(disk)]_vars

\* what the file d holds besides the two authentication fields: the other
\* fields of a JSON object, or the JSON value itself when it is no object
Unrelated(d) ==
    IF ReadConfig(d).value.kind = "object" THEN ReadConfig(d).value.other
    ELSE ReadConfig(d).value

C20_Original ==
    (lastCall.op = "save" /\ ~lastCall.error) => EncryptedOnly(disk)

\* in the step, loadTokensFromDisk is called
LoadStep == now' = now /\ lastCall'.op = "load"

\* the file d holds a JSON object with a legacy `auth` section that is
\* valid at time t, and no `auth_encrypted`
OnlyValidLegacy(d, t) ==
    /\ ReadConfig(d).ok
    /\ ReadConfig(d).value.kind = "object"
    /\ ReadConfig(d).value.auth_encrypted = Absent
    /\ ReadConfig(d).value.auth # Absent
    /\ ReadConfig(d).value.auth.type = "jwt"
    /\ ReadConfig(d).value.auth.token \notin {NULL, ""}
    /\ ReadConfig(d).value.auth.refreshToken \notin {NULL, ""}
    /\ ReadConfig(d).value.auth.expiresAt.iso
    /\ ReadConfig(d).value.auth.expiresAt.ms > t

\* C21: loadTokensFromDisk on a config with only a valid legacy section
\* returns that section's triple, whether or not the migrating save fails;
\* unless that save logs an error the file then holds the same triple
\* encrypted and no plaintext section, and a failed save leaves no file
\* with both.
C21_LegacyMigrated ==
    [][(LoadStep /\ OnlyValidLegacy(disk, now)) =>
        LET auth == ReadConfig(disk).value.auth
        IN  /\ lastCall'.tokens =
                  [accessToken |-> auth.token,
                   refreshToken |-> auth.refreshToken,
                   expiresAt |-> Num(auth.expiresAt.ms)]
            /\ ~lastCall'.error =>
                  /\ EncryptedOnly(disk')
                  /\ Persisted(disk') = lastCall'.tokens
            /\ lastCall'.error => disk' = disk \/ EncryptedOnly(disk')]_vars

\* the legacy triple was returned although the migrating write failed and
\* the file still holds the plaintext section
C21_Witness ==
    /\ lastCall.op = "load"
    /\ lastCall.error
    /\ lastCall.tokens # NoTokens
    /\ lastCall.tokens.accessToken = "at-L"
    /\ OnlyValidLegacy(disk, now)

\* the legacy section of the file d, when the file is a JSON object that
\* has one
Legacy(d) ==
    IF ReadConfig(d).ok /\ ReadConfig(d).value.kind = "object"
    THEN ReadConfig(d).value.auth ELSE Absent

\* the expiry e is no time, or a time not after t
NotAfter(e, t) == e.nan \/ e.v <= t

\* C22: what loadTokensFromDisk returns is nothing, or a token that expires
\* after the current time.  It returns nothing when the encrypted record
\* decrypts and its expiry is unparseable or not after the current time,
\* and when no encrypted record decrypts and the legacy section's expiry
\* is unparseable or not after the current time.
C22_NoExpiredToken ==
    [][LoadStep =>
        /\ \/ lastCall'.tokens = NoTokens
           \/ ~NotAfter(lastCall'.tokens.expiresAt, now)
        /\ (Persisted(disk) # NoTokens
              /\ NotAfter(Persisted(disk).expiresAt, now)) =>
               lastCall'.tokens = NoTokens
        /\ (Persisted(disk) = NoTokens /\ Legacy(disk) # Absent
              /\ NotAfter(DateGetTime(Legacy(disk).expiresAt), now)) =>
               lastCall'.tokens = NoTokens]_vars

\* a load at the very millisecond at which the stored encrypted token
\* expires returned nothing
C22_Witness ==
    /\ lastCall.op = "load"
    /\ lastCall.tokens = NoTokens
    /\ now = 5000
    /\ Persisted(disk) # NoTokens
    /\ Persisted(disk).expiresAt = Num(5000)

FailedSaveStep ==
    /\ pc[1] \in {"flow", "refresh", "reflow"}
    /\ oauthTokens' # oauthTokens
    /\ disk' = disk

\* C24: saveTokensToDisk raises nothing to its caller, whatever fails in
\* it: no call of the client ends with an exception of the file system,
\* and a call whose save wrote nothing goes on with the token it holds in
\* memory, to the request carrying that token (or to the refresh of it).
C24_SaveNeverThrows ==
    [][/\ result'[1] # Threw(SaveError)
       /\ FailedSaveStep =>
            /\ pc'[1] \in {"fetch", "refresh"}
            /\ result'[1] = NoResult
            /\ pc'[1] = "fetch" => authHeader'[1] = BearerHeader(oauthTokens')]_vars

\* the browser flow's tokens are in memory, nothing is on disk, and the
\* request is on its way with the token
C24_Witness ==
    /\ pc[1] = "fetch"
    /\ trace[1] = <<"load", "flow", "save", "fetch">>
    /\ disk = NoFile
    /\ oauthTokens # NoTokens
    /\ authHeader[1] = BearerHeader(oauthTokens)

\* in the step, saveTokensToDisk is called and writes the file
WroteStep ==
    /\ lastCall'.op = "save"
    /\ now' = now
    /\ disk' # disk
    /\ disk'.kind = "file"

\* C25: a save that wrote the config file leaves it with the permissions
\* 0600.  (Violated: writeFileSync and chmodSync are two calls, and when
\* the second fails the file that was written keeps the permissions it had,
\* or those it was created with.)
C25_Original ==
    [][WroteStep => disk'.mode = "0600"]_vars

\* the saves that logged no failure do leave the file with 0600
WithoutFailure0600 ==
    [][(WroteStep /\ ~lastCall'.error) => disk'.mode = "0600"]_vars

\* in the step, refreshAccessToken is called and answered with a status
\* that is not a success
RefusedStep ==
    /\ lastCall' # lastCall
    /\ lastCall'.op = "refresh"
    /\ ~lastCall'.res.ok

\* C26: a refresh answered with a status that is not a success fails with
\* an error that carries the status and nothing of the response body.
\* (Violated: the message of the error ends with the body.)
C26_Original ==
    [][RefusedStep =>
        /\ lastCall'.settled.kind = "rejected"
        /\ lastCall'.settled.error.status = lastCall'.res.status
        /\ lastCall'.settled.error.body = NULL]_vars

\* the refresh does fail, and with the status
RefusedWithStatus ==
    [][RefusedStep =>
        /\ lastCall'.settled.kind = "rejected"
        /\ lastCall'.settled.error.status = lastCall'.res.status]_vars

\* in the step, refreshAccessToken sends its request
RefreshCallStep ==
    /\ lastCall' # lastCall
    /\ lastCall'.op = "refresh"

\* C27: no refresh request is sent to an identity endpoint that is not
\* HTTPS.  (Violated: the module takes the override as it is, and loads.)
C27_Original ==
    [][RefreshCallStep => StartsWith(lastCall'.url, <<"https://">>)]_vars

\* C28: the expiresAt of the tokens in the cache is a number, an absolute
\* time in epoch milliseconds.  (Violated: the browser flow accepts any
\* non-empty expires_in, and parseInt of one that starts with no digit is
\* NaN, which the sum keeps.)
C28_Original ==
    oauthTokens # NoTokens => ~oauthTokens.expiresAt.nan

\* an expiresAt that is a number is the time it was computed at plus the
\* lifetime: never before the start of the run, never a bare duration
NumbersAreAbsolute ==
    [][(oauthTokens' # oauthTokens /\ ~oauthTokens'.expiresAt.nan
          /\ Persisted(disk) # oauthTokens') =>
            oauthTokens'.expiresAt.v >= now]_vars

\* the calls with an authentication session (a browser flow or a refresh)
\* in progress, and those with their HTTP request in flight
Authenticating == {p \in Calls : pc[p] \in {"flow", "refresh", "reflow"}}
Fetching == {p \in Calls : pc[p] = "fetch"}

OtherPathStep ==
    /\ req' # req \/ resp' # resp
    /\ req'.path \notin {NULL, "/callback"}

\* C30: a request on a path other than /callback is answered 404, and the
\* settled flag, the attempt counter and the outcome are after it what they
\* were before.  (Violated: the handler parses the target before it looks
\* at the path, and on a target like "//" the parser throws: that request
\* is answered nothing.)
C30_Original ==
    [][OtherPathStep =>
        /\ resp'.status = 404
        /\ settled' = settled
        /\ callbackAttempts' = callbackAttempts
        /\ outcome' = outcome]_vars

\* the targets that parse are answered 404, and no request on another path
\* touches the flow's state
OtherPathsKeepState ==
    [][OtherPathStep =>
        /\ UrlParses(req'.path) => resp' = Response(404, "text", "Not found")
        /\ settled' = settled
        /\ callbackAttempts' = callbackAttempts
        /\ outcome' = outcome
        /\ server' = server]_vars

\* in the step, the attempt to bind the loopback port ends without a port
BindFailedStep == server = "binding" /\ server' = "unbound"

\* C31: a failure to bind the loopback port rejects the flow at once with
\* the bind-failure error, and the browser is not opened.  (Violated: only
\* a listen callback that finds no address rejects; a listen() that fails
\* emits 'error', which the flow does not listen to, and the flow stays
\* pending until its timer rejects it with the timeout error.)
C31_Original ==
    [][BindFailedStep =>
        /\ outcome' = Rejected(BindError)
        /\ ~browserOpened']_vars

\* no bind failure opens the browser or is retried, and the flow that
\* failed to bind ends rejected, with the bind failure or the timeout
BindFailureIsFinal ==
    /\ [][BindFailedStep => ~browserOpened']_vars
    /\ [][server = "unbound" => server' = "unbound" /\ ~browserOpened']_vars
    /\ [][(server = "unbound" /\ outcome' # outcome) =>
             outcome' = Rejected(TimeoutError)]_vars

\* the file d holds a JSON object whose `auth_encrypted` is a string that
\* has not three parts, or was encrypted with another key, or whose tag is
\* not that of its iv and data
Undecryptable(d) ==
    /\ ReadConfig(d).ok
    /\ ReadConfig(d).value.kind = "object"
    /\ ReadConfig(d).value.auth_encrypted # Absent
    /\ ReadConfig(d).value.auth_encrypted.kind = "string"
    /\ LET parts == ReadConfig(d).value.auth_encrypted.parts
       IN  \/ Len(parts) # 3
           \/ parts[3].key # MachineKey
           \/ parts[2].iv # parts[1].iv
           \/ parts[2].text # parts[3].text

\* the legacy section of the file d is valid at time t
ValidLegacy(d, t) ==
    /\ Legacy(d) # Absent
    /\ Legacy(d).type = "jwt"
    /\ Legacy(d).token \notin {NULL, ""}
    /\ Legacy(d).refreshToken \notin {NULL, ""}
    /\ Legacy(d).expiresAt.iso
    /\ Legacy(d).expiresAt.ms > t

\* C32: on a config whose `auth_encrypted` cannot be decrypted (another
\* key, a tag that does not fit, not three parts) loadTokensFromDisk raises
\* nothing and returns nothing of the encrypted record: it returns the
\* triple of the legacy `auth` section when that one is valid, and nothing
\* otherwise.
C32_FallThrough ==
    [][(LoadStep /\ Undecryptable(disk)) =>
        /\ ~lastCall'.raised
        /\ lastCall'.tokens =
             IF ValidLegacy(disk, now)
             THEN [accessToken |-> Legacy(disk).token,
                   refreshToken |-> Legacy(disk).refreshToken,
                   expiresAt |-> Num(Legacy(disk).expiresAt.ms)]
             ELSE NoTokens]_vars

\* the legacy triple was loaded from a file whose encrypted field had been
\* tampered with (the failed migration left the file as it was)
C32_Witness ==
    /\ lastCall.op = "load"
    /\ lastCall.tokens # NoTokens
    /\ lastCall.tokens.accessToken = "at-L"
    /\ Undecryptable(disk)
    /\ Len(ReadConfig(disk).value.auth_encrypted.parts) = 3
    /\ ReadConfig(disk).value.auth_encrypted.parts[3].key = MachineKey

\* in the step, loadTokensFromDisk is called on a file whose
\* `auth_encrypted` decrypts to a JSON object
DecryptedStep ==
    /\ LoadStep
    /\ ReadConfig(disk).ok
    /\ ReadConfig(disk).value.kind = "object"
    /\ DecryptedAuth(ReadConfig(disk).value).ok

\* C33: on the encrypted path a triple is returned only for a decrypted
\* record whose type is "jwt" and whose expiry is a time after now.
\* (Violated: the encrypted branch looks at the expiry only.)
C33_Original ==
    [][(DecryptedStep /\ lastCall'.tokens # NoTokens) =>
        LET auth == DecryptedAuth(ReadConfig(disk).value).value
        IN  /\ auth.type = "jwt"
            /\ auth.expiresAt.iso
            /\ auth.expiresAt.ms > now]_vars

\* the expiry of the decrypted record is checked
DecryptedExpiryChecked ==
    [][(DecryptedStep /\ lastCall'.tokens # NoTokens) =>
        LET auth == DecryptedAuth(ReadConfig(disk).value).value
        IN  /\ auth.expiresAt.iso
            /\ auth.expiresAt.ms > now]_vars

\* C34: when `auth_encrypted` decrypts, loadTokensFromDisk answers from the
\* decrypted record alone, whatever the legacy `auth` section holds: the
\* record's triple when its expiry is after now, and nothing otherwise
\* (even beside a valid legacy section); nothing is migrated, the file is
\* left as it is.
C34_LegacyNotConsulted ==
    [][DecryptedStep =>
        LET auth == DecryptedAuth(ReadConfig(disk).value).value
        IN  /\ lastCall'.tokens =
                 IF auth.expiresAt.iso /\ auth.expiresAt.ms > now
                 THEN [accessToken |-> auth.token,
                       refreshToken |-> auth.refreshToken,
                       expiresAt |-> Num(auth.expiresAt.ms)]
                 ELSE NoTokens
            /\ disk' = disk]_vars

\* nothing was loaded from a file with an expired encrypted record and a
\* valid legacy section
C34_Witness ==
    /\ lastCall.op = "load"
    /\ lastCall.tokens = NoTokens
    /\ ValidLegacy(disk, now)
    /\ ReadConfig(disk).value.auth_encrypted # Absent
    /\ DecryptedAuth(ReadConfig(disk).value).ok
    /\ DecryptedAuth(ReadConfig(disk).value).value.expiresAt.iso
    /\ DecryptedAuth(ReadConfig(disk).value).value.expiresAt.ms <= now

\* the token ensureAuth finds at time t with cache c and file d: the
\* cached one, or else the one the store yields
Found(c, d, t) ==
    IF c # NoTokens THEN c ELSE LoadTokensFromDisk(d, t, "iv-1", "ok").tokens

\* tok has less than 30 seconds left at time t
NearExpiry(tok, t) ==
    /\ tok # NoTokens
    /\ ~tok.expiresAt.nan
    /\ tok.expiresAt.v - t < 30000

\* C35: a call that finds a cached or stored token with less than 30
\* seconds left does not dispatch with it: it goes to the refresh, and the
\* request it then dispatches carries the token the refresh, or the browser
\* flow after the failed refresh, has just put in the cache.
C35_StaleNeverDispatched ==
    [][/\ (pc[1] = "idle" /\ pc'[1] # "idle" /\ apiKey = NULL
            /\ NearExpiry(Found(oauthTokens, disk, now), now)) =>
              /\ pc'[1] = "refresh"
              /\ authHeader'[1] = authHeader[1]
       /\ (pc[1] = "refresh" /\ pc'[1] = "fetch") =>
              /\ oauthTokens'.accessToken = "at-r"
              /\ oauthTokens'.expiresAt.v >= now
              /\ authHeader'[1] = BearerHeader(oauthTokens')
       /\ (pc[1] = "reflow" /\ pc'[1] = "fetch") =>
              /\ oauthTokens'.accessToken = "at-1"
              /\ authHeader'[1] = BearerHeader(oauthTokens')
       /\ (pc[1] = "refresh" /\ pc'[1] \notin {"refresh", "fetch"}) =>
              pc'[1] = "reflow"]_vars

\* a later call found the cached token near its expiry, refreshed it and
\* dispatched with the new one
C35_Witness ==
    /\ pc[1] = "fetch"
    /\ trace[1] = <<"refresh", "save", "fetch">>
    /\ result[1] = NoResult
    /\ authHeader[1] = BearerHeader(oauthTokens)
    /\ oauthTokens.accessToken = "at-r"

\* the errors a browser flow rejects with
FlowErrors ==
    {r.error : r \in {f \in BrowserFlowResults(0) : f.kind = "rejected"}}

\* in the step, the authentication of call 1 fails: its browser flow (the
\* first one, or the one after a failed refresh) rejects
AuthFailedStep == pc[1] \in {"flow", "reflow"} /\ pc'[1] = "idle"

\* C36: when the browser flow of a call rejects (the first flow, or the
\* fallback flow after a rejected refresh), the call rejects with the
\* error of that flow, it has dispatched no HTTP request, the step saves
\* nothing, and the cache holds what it held before the step.
C36_AuthFailure ==
    [][AuthFailedStep =>
        /\ result'[1].kind = "threw"
        /\ result'[1].error \in FlowErrors
        /\ Count(trace'[1], "fetch") = 0
        /\ httpRes'[1] = NoFetch
        /\ disk' = disk
        /\ oauthTokens' = oauthTokens
        /\ pc[1] = "reflow" => Count(trace[1], "refresh") = 1]_vars

\* the refresh of a stored token and the flow after it both failed: the
\* call has thrown the flow's error and the cache still holds the token
C36_Witness ==
    /\ pc[1] = "idle"
    /\ trace[1] = <<"load", "refresh", "flow">>
    /\ result[1] = Threw(TimeoutError)
    /\ oauthTokens # NoTokens
    /\ oauthTokens.accessToken = "at-0"

\* C37: the slot of the window is taken in the step that admits the call,
\* before any authentication has been resolved: the timestamp is recorded
\* whether the call goes on to the store, a browser flow, a refresh or the
\* request; and when authentication then fails, with no HTTP request made,
\* the slot stays taken.
C37_SlotBeforeAuth ==
    [][/\ (pc[1] = "idle" /\ pc'[1] # "idle") =>
            /\ requestTimestamps' = Append(Prune(requestTimestamps, now), now)
            /\ pc'[1] \in {"flow", "refresh", "fetch"}
       /\ pc[1] # "idle" =>
            /\ requestTimestamps' = requestTimestamps
            /\ Len(requestTimestamps) >= 1
       /\ AuthFailedStep =>
            /\ httpRes'[1] = NoFetch
            /\ requestTimestamps'[Len(requestTimestamps')] <= now]_vars

\* the first call's flow was rejected: no request was made and its slot
\* is in the window
C37_Witness ==
    /\ pc[1] = "idle"
    /\ result[1] = Threw(TimeoutError)
    /\ trace[1] = <<"load", "flow">>
    /\ httpRes[1] = NoFetch
    /\ Len(requestTimestamps) = 1

\* C38: in one call the refresher is called at most once and the browser
\* flow at most twice; a call has two browser flows only as load (nothing
\* cached, nothing stored), flow, save, refresh (the flow's token has less
\* than 30 seconds left), flow (the refresh was rejected), and a call that
\* has gone this way has two.
C38_FlowsPerCall ==
    /\ Count(trace[1], "refresh") <= 1
    /\ Count(trace[1], "flow") <= 2
    /\ Count(trace[1], "flow") = 2 <=>
           StartsWith(trace[1], <<"load", "flow", "save", "refresh", "flow">>)
    /\ pc[1] = "reflow" =>
           /\ trace[1][Len(trace[1])] = "flow"
           /\ trace[1][Len(trace[1]) - 1] = "refresh"
           /\ NearExpiry(oauthTokens, now)

\* a call with two browser flows, the second one pending
C38_Witness ==
    /\ pc[1] = "reflow"
    /\ trace[1] = <<"load", "flow", "save", "refresh", "flow">>
    /\ oauthTokens.accessToken = "at-1"

\* the other call
Other(p) == 3 - p

\* C39: nothing in the client keeps two overlapping calls from
\* authenticating at once.  A call admitted with no token cached or stored
\* starts a browser flow of its own, also while the other call's flow is
\* pending; and each flow that completes puts its tokens in the cache and
\* hands them to the save, over those of a flow completed before: cache and
\* store (unless the write failed) hold the tokens of the flow that
\* completed last.
C39_NoGuard ==
    [][\A p \in Calls :
        /\ (pc[p] = "idle" /\ pc'[p] # "idle"
              /\ Found(oauthTokens, disk, now) = NoTokens) =>
                 /\ pc'[p] = "flow"
                 /\ pc'[Other(p)] = pc[Other(p)]
        /\ (pc[p] = "flow" /\ pc'[p] \notin {"flow", "idle"}) =>
                 /\ oauthTokens'.accessToken = IF p = 1 THEN "at-1" ELSE "at-2"
                 /\ authHeader'[p] = BearerHeader(oauthTokens')
                 /\ disk' = disk \/ Persisted(disk') = oauthTokens']_vars

\* both calls ran a browser flow; that of call 1 completed last, and cache
\* and store hold its tokens
C39_Witness ==
    /\ trace[1] = <<"load", "flow", "save", "fetch">>
    /\ trace[2] = <<"load", "flow", "save", "fetch">>
    /\ pc[1] = "fetch"
    /\ authHeader[2].value = "at-2"
    /\ oauthTokens.accessToken = "at-1"
    /\ Persisted(disk) = oauthTokens

\* two authentication sessions are pending at once
TwoFlowsPending == pc[1] = "flow" /\ pc[2] = "flow"

\* C40: check, pruning and recording happen in the one step that starts a
\* call, whatever the other call is in the middle of.  A call admitted
\* while the other one is suspended records one timestamp, after which the
\* window holds at most 30 entries, all of them of the last 10 seconds: at
\* most 30 calls were admitted in that time.  The steps that resume a
\* suspended call (the end of a browser flow, the answer to fetch) leave
\* the window alone.
C40_AtomicLimiter ==
    [][/\ \A p \in Calls :
            (StartStep(p) /\ pc'[p] # "idle") =>
               /\ Len(requestTimestamps') =
                      Len(Young(requestTimestamps, now)) + 1
               /\ Len(requestTimestamps') <= RATE_LIMIT_MAX
               /\ Young(requestTimestamps', now) = requestTimestamps'
               /\ requestTimestamps'[Len(requestTimestamps')] = now
               /\ pc'[Other(p)] = pc[Other(p)]
       /\ (\A p \in Calls : ~(pc[p] = "idle" /\ pc'[p] # "idle")) =>
               requestTimestamps' = requestTimestamps]_vars

\* the 30th call of the window was admitted while the other call was
\* waiting for its answer
C40_Witness ==
    /\ Len(requestTimestamps) = RATE_LIMIT_MAX
    /\ pc[1] = "fetch"
    /\ pc[2] = "fetch"
    /\ requestTimestamps[RATE_LIMIT_MAX] = now

====
